---- MODULE Spec2Model ----
(***************************************************************************)
(* dctl: compose-file loading and dependency ordering.                     *)
(*                                                                         *)
(* Service names are modelled as the integers 1..NumNames; the numeric     *)
(* order stands for the byte-wise string order used by sort.Strings.       *)
(* A name of 1..NumNames that is not a key of the services map plays the   *)
(* role of an undeclared service.                                          *)
(***************************************************************************)
EXTENDS Integers, Sequences, FiniteSets, TLC

\* ---- bounds -------------------------------------------------------------
NumNames == 3
MaxEdges == 3
MaxCalls == 2
MaxFiles == 2
MaxWeight == 4
MaxInner == 6
MaxScan == 4
MaxMerge == 3
MaxCmdLen == 4
MaxItemLen == 3
MaxItems == 2
MaxRich == 2
MaxUpEdges == 2
MaxNets == 2
MaxArgsCalls == 2

Names == 1..NumNames

\* ---- generic helpers ----------------------------------------------------
Range(s) == {s[i] : i \in 1..Len(s)}

\* All orders in which a Go `range` over a map with key set S may visit it.
Perms(S) == {p \in [1..Cardinality(S) -> S] : \A i, j \in 1..Cardinality(S) : p[i] = p[j] => i = j}

RECURSIVE InsertSorted(_, _)
InsertSorted(x, s) ==
    IF s = <<>> THEN <<x>>
    ELSE IF x <= Head(s) THEN <<x>> \o s
    ELSE <<Head(s)>> \o InsertSorted(x, Tail(s))

\* sort.Strings: the ascending rearrangement of a slice.
RECURSIVE SortStrings(_)
SortStrings(s) == IF s = <<>> THEN <<>> ELSE InsertSorted(Head(s), SortStrings(Tail(s)))

\* ---- raw values ---------------------------------------------------------
\* A value decoded by yaml.Unmarshal into an interface{} field: nil, a
\* string, another scalar, a []interface{} or a map[string]interface{}.
RawNil == [kind |-> "nil", val |-> <<>>]
RawScalar == [kind |-> "scalar", val |-> <<>>]
RawText(t) == [kind |-> "string", val |-> t]
RawList(items) == [kind |-> "list", val |-> items]
RawMap(m) == [kind |-> "map", val |-> m]

\* A scalar inside a raw list or mapping, with its YAML type; v is its "%v" text.
RawStr(v) == [t |-> "str", v |-> v]
RawBool(v) == [t |-> "bool", v |-> v]
RawNum(v) == [t |-> "int", v |-> v]
RawNull == [t |-> "null", v |-> <<"<", "n", "i", "l", ">">>]

\* fmt.Sprintf("%v", item)
Sprintv(item) == item.v

\* ---- types --------------------------------------------------------------
\* DependsOnCondition{Condition, Restart}
DependsOnCondition(c, r) == [Condition |-> c, Restart |-> r]

\* Service.DependsOn is an interface{}: nil, or (after normalisation) a
\* map[string]DependsOnCondition, the one type the switch of ResolveOrder
\* looks into; a raw mapping is a map[string]interface{}.
NilDependsOn == [kind |-> "nil", val |-> <<>>]
MapDependsOn(m) == [kind |-> "conditions", val |-> m]

\* The fields of Service the model follows: Image and the ten interface{}
\* fields resolveService normalises; the other fields are carried through
\* Load unchanged.
Service(d) ==
    [Image |-> "", Command |-> RawNil, Entrypoint |-> RawNil, Environment |-> RawNil,
     EnvFile |-> RawNil, DependsOn |-> d, DNS |-> RawNil, DNSSearch |-> RawNil,
     Tmpfs |-> RawNil, Networks |-> RawNil, Build |-> RawNil]

\* ---- ResolveOrder: pieces ----------------------------------------------
\* The keys the type switch of ResolveOrder iterates for one service.
DepKeysNoSelf(services, name) ==
    IF services[name].DependsOn.kind = "conditions"
    THEN (DOMAIN services[name].DependsOn.val) \ {name}
    ELSE {}
DepKeys(services, name) ==
    IF services[name].DependsOn.kind = "conditions"
    THEN DOMAIN services[name].DependsOn.val
    ELSE {}

\* The keys for which `_, ok := services[dep]; !ok` holds.
UndefinedDepsNone(services, name) == {}
UndefinedDeps(services, name) == {dep \in DepKeys(services, name) : dep \notin DOMAIN services}

SortDepList(l) == SortStrings(l)

\* inDegree[name] = len(depList)
CountDepsAtMostOne(depList) == IF Len(depList) > 0 THEN 1 ELSE 0
CountDeps(depList) == Len(depList)

\* dependents[dep] = append(dependents[dep], name) for every dep of depList
RECURSIVE AddDependents(_, _, _)
AddDependents(dependents, depList, name) ==
    IF depList = <<>> THEN dependents
    ELSE AddDependents([dependents EXCEPT ![Head(depList)] = Append(@, name)], Tail(depList), name)

SortSeedNot(q) == q
SortSeed(q) == SortStrings(q)

SortChildrenNot(children) == children
SortChildren(children) == SortStrings(children)

IsReady(degree) == degree = 0

EnqueueFront(queue, child) == <<child>> \o queue
Enqueue(queue, child) == Append(queue, child)

\* for _, child := range children { inDegree[child]--; if == 0 {append} }
RECURSIVE RelaxEnqueueAlways(_, _, _)
RelaxEnqueueAlways(children, inDeg, q) ==
    IF children = <<>> THEN [inDegree |-> inDeg, queue |-> q]
    ELSE LET child == Head(children)
             d == inDeg[child] - 1
         IN RelaxEnqueueAlways(Tail(children), [inDeg EXCEPT ![child] = d], Enqueue(q, child))
RECURSIVE Relax(_, _, _)
Relax(children, inDeg, q) ==
    IF children = <<>> THEN [inDegree |-> inDeg, queue |-> q]
    ELSE LET child == Head(children)
             d == inDeg[child] - 1
         IN Relax(Tail(children),
                  [inDeg EXCEPT ![child] = d],
                  IF IsReady(d) THEN Enqueue(q, child) ELSE q)

IsIncompleteOnlyEmpty(order, services) == Len(order) = 0 /\ Cardinality(DOMAIN services) # 0
IsIncomplete(order, services) == Len(order) # Cardinality(DOMAIN services)

IsCycledAboveOne(degree) == degree > 1
IsCycled(degree) == degree > 0

\* ---- results ------------------------------------------------------------
NoResult == [err |-> "pending", order |-> <<>>, name |-> 0, dep |-> 0, cycled |-> <<>>]
OkResult(o) == [err |-> "none", order |-> o, name |-> 0, dep |-> 0, cycled |-> <<>>]
UndefinedError(n, d) == [err |-> "undefined", order |-> <<>>, name |-> n, dep |-> d, cycled |-> <<>>]
CycleError(c) == [err |-> "cycle", order |-> <<>>, name |-> 0, dep |-> 0, cycled |-> c]

\* ---- inputs -------------------------------------------------------------
DefaultCondition == DependsOnCondition("service_started", FALSE)

ServiceOfKeys(K) ==
    IF K = {} THEN Service(NilDependsOn)
    ELSE Service(MapDependsOn([d \in K |-> DefaultCondition]))

EdgeCount(g) == Cardinality({e \in (DOMAIN g) \X Names : e[2] \in g[e[1]]})

\* Every services mapping over at most NumNames names and MaxEdges depends_on entries.
ServiceMaps ==
    UNION {
      {[n \in S |-> ServiceOfKeys(g[n])] : g \in {h \in [S -> SUBSET Names] : EdgeCount(h) <= MaxEdges}}
      : S \in SUBSET Names}

\* ---- Load: raw documents ------------------------------------------------
\* A typed map field (Networks, Volumes): nil, or a map.
NoEntries == [kind |-> "nil", val |-> <<>>]
Entries(m) == [kind |-> "map", val |-> m]

\* Network and VolumeConfig: the fields the commands look at.
Network(external, name) == [External |-> external, Name |-> name]
VolumeConfig(external, name) == [External |-> external, Name |-> name]

\* ComposeFile as parseComposeFile returns it.
ComposeFile(name, svcs, nets, vols) ==
    [Name |-> name, Services |-> svcs, Networks |-> nets, Volumes |-> vols]
ComposeDoc(svcs) == ComposeFile("", svcs, NoEntries, NoEntries)

defaultComposeFiles == <<"compose.yaml", "compose.yml", "docker-compose.yml", "docker-compose.yaml">>

\* One file of the files argument: readable and well-formed, or not.
OkFile(doc) == [status |-> "ok", doc |-> doc]
UnreadableFile == [status |-> "unreadable", doc |-> ComposeDoc(<<>>)]
MalformedFile == [status |-> "malformed", doc |-> ComposeDoc(<<>>)]

NoModel ==
    [loaded |-> FALSE, Name |-> "", Services |-> <<>>, Networks |-> NoEntries, Volumes |-> NoEntries]
Model(doc) ==
    [loaded |-> TRUE, Name |-> doc.Name, Services |-> doc.Services,
     Networks |-> doc.Networks, Volumes |-> doc.Volumes]

NoLoadError == [kind |-> "none", file |-> 0, service |-> 0, field |-> "", tried |-> <<>>]
ReadError(i) == [kind |-> "read", file |-> i, service |-> 0, field |-> "", tried |-> <<>>]
ParseError(i) == [kind |-> "parse", file |-> i, service |-> 0, field |-> "", tried |-> <<>>]
ServiceError(n, f) == [kind |-> "service", file |-> 0, service |-> n, field |-> f, tried |-> <<>>]
NotFoundError(names) == [kind |-> "notfound", file |-> 0, service |-> 0, field |-> "", tried |-> names]

\* ---- Load: pieces -------------------------------------------------------
\* findDefaultFile: the first default name present in the directory, "" when none is.
findDefaultFileLast(d) ==
    LET present == {i \in 1..Len(defaultComposeFiles) : defaultComposeFiles[i] \in DOMAIN d}
    IN IF present = {} THEN ""
       ELSE defaultComposeFiles[CHOOSE i \in present : \A j \in present : j <= i]
findDefaultFile(d) ==
    LET present == {i \in 1..Len(defaultComposeFiles) : defaultComposeFiles[i] \in DOMAIN d}
    IN IF present = {} THEN ""
       ELSE defaultComposeFiles[CHOOSE i \in present : \A j \in present : i <= j]

\* `if src.Name != "" { dst.Name = src.Name }`
mergeNameAlways(dstName, srcName) == srcName
mergeName(dstName, srcName) == IF srcName # "" THEN srcName ELSE dstName

\* for name, x := range src { dst[name] = x }
mergeEntriesKeepFirst(dst, src) ==
    [n \in (DOMAIN dst) \cup (DOMAIN src) |-> IF n \in DOMAIN dst THEN dst[n] ELSE src[n]]
mergeEntries(dst, src) ==
    [n \in (DOMAIN dst) \cup (DOMAIN src) |-> IF n \in DOMAIN src THEN src[n] ELSE dst[n]]

\* Networks and Volumes: dst is made when it is nil and src is not.
mergeTyped(dst, src) ==
    IF src.kind = "nil" THEN dst ELSE Entries(mergeEntries(dst.val, src.val))

mergeComposeFiles(dst, src) ==
    ComposeFile(mergeName(dst.Name, src.Name),
                mergeEntries(dst.Services, src.Services),
                mergeTyped(dst.Networks, src.Networks),
                mergeTyped(dst.Volumes, src.Volumes))

\* The loop of Load lines 41-65 over the first k files.
RECURSIVE MergeFiles(_, _)
MergeFiles(fs, k) ==
    IF k = 1 THEN fs[1].doc
    ELSE mergeComposeFiles(MergeFiles(fs, k - 1), fs[k].doc)

\* The value of one depends_on mapping entry.
resolveConditionNoRestart(cond) ==
    IF cond.kind = "map"
    THEN DependsOnCondition(
            IF "condition" \in DOMAIN cond.val THEN cond.val["condition"].v ELSE "service_started",
            FALSE)
    ELSE DependsOnCondition("service_started", FALSE)
resolveCondition(cond) ==
    IF cond.kind = "map"
    THEN DependsOnCondition(
            IF "condition" \in DOMAIN cond.val THEN cond.val["condition"].v ELSE "service_started",
            IF "restart" \in DOMAIN cond.val /\ cond.val["restart"].t = "bool"
            THEN cond.val["restart"].v = "true" ELSE FALSE)
    ELSE DependsOnCondition("service_started", FALSE)

resolveDependsOn(v) ==
    IF v.kind = "nil" THEN [err |-> FALSE, val |-> NilDependsOn]
    ELSE IF v.kind = "list"
    THEN [err |-> FALSE,
          val |-> MapDependsOn([n \in Range(v.val) |-> DependsOnCondition("service_started", FALSE)])]
    ELSE IF v.kind = "map"
    THEN [err |-> FALSE, val |-> MapDependsOn([n \in DOMAIN v.val |-> resolveCondition(v.val[n])])]
    ELSE [err |-> TRUE, val |-> NilDependsOn]

\* ---- Load: inputs -------------------------------------------------------
\* The raw depends_on mapping values the input documents use.
RawConditions ==
    { RawNil,
      RawMap([k \in {"condition"} |-> RawStr("service_healthy")]) }

\* Weight of a raw depends_on: one per entry, one more per explicit value.
RawDependsOnOfWeight(w) ==
    IF w = 0 THEN {RawNil}
    ELSE (IF w = 1 THEN {RawScalar} ELSE {})
         \cup {RawList(SortStrings(p)) : p \in UNION {Perms(K) : K \in {L \in SUBSET Names : Cardinality(L) = w}}}
         \cup UNION {{RawMap(m) : m \in {f \in [K -> RawConditions] :
                                Cardinality(K) + Cardinality({n \in K : f[n] # RawNil}) = w}}
                     : K \in (SUBSET Names) \ {{}}}

RawServices(w) == {Service(d) : d \in UNION {RawDependsOnOfWeight(v) : v \in 0..w}}

ServiceWeight(svc) ==
    1 + (CHOOSE w \in 0..(2 * NumNames) : svc.DependsOn \in RawDependsOnOfWeight(w))

RECURSIVE SumWeights(_, _)
SumWeights(f, S) ==
    IF S = {} THEN 0
    ELSE LET n == CHOOSE x \in S : TRUE IN ServiceWeight(f[n]) + SumWeights(f, S \ {n})

\* The documents of weight at most w: one per service, plus its depends_on.
DocsUpTo(w) ==
    UNION {{ComposeDoc(f) : f \in {g \in [S -> RawServices(w - Cardinality(S))] : SumWeights(g, S) <= w}}
           : S \in {T \in SUBSET Names : Cardinality(T) <= w}}

DocWeight(doc) == SumWeights(doc.Services, DOMAIN doc.Services)

FileWeight(f) == IF f.status = "ok" THEN DocWeight(f.doc) ELSE 1

FilesUpTo(w) == {OkFile(d) : d \in DocsUpTo(w)} \cup (IF w >= 1 THEN {UnreadableFile, MalformedFile} ELSE {})

\* The files arguments of Load: one to MaxFiles files of total weight at most MaxWeight.
RECURSIVE FileLists(_, _)
FileLists(k, w) ==
    IF k = 0 THEN {<<>>}
    ELSE {<<>>} \cup UNION {{<<f>> \o rest : rest \in FileLists(k - 1, w - FileWeight(f))} : f \in FilesUpTo(w)}

LoadInputs == FileLists(MaxFiles, MaxWeight) \ {<<>>}

\* ---- Load: documents to merge ---------------------------------------------
ImageService(img, d) == [Service(d) EXCEPT !.Image = img]

ProjectNames == {"", "p", "q"}
ResourceNames == {"r1", "r2"}

MergeNames == {1, 2}
VolumeNames == {"v1"}

MergeServiceEntries ==
    {ImageService("a", RawNil), ImageService("b", RawNil), ImageService("a", RawList(<<2>>))}

ResourceEntries == {Network(FALSE, ""), Network(TRUE, "x")}

EntryWeight(x) == 1

RECURSIVE SumEntryWeights(_, _)
SumEntryWeights(f, S) ==
    IF S = {} THEN 0
    ELSE LET n == CHOOSE x \in S : TRUE IN EntryWeight(f[n]) + SumEntryWeights(f, S \ {n})

\* The maps from keys of K to entries of E of total weight at most w.
WeightedMaps(K, E, w) ==
    UNION {{f \in [S -> E] : SumEntryWeights(f, S) <= w} : S \in {T \in SUBSET K : Cardinality(T) <= w}}

TypedWeight(m) == IF m.kind = "nil" THEN 0 ELSE SumEntryWeights(m.val, DOMAIN m.val)

MergeDocWeight(doc) ==
    (IF doc.Name # "" THEN 1 ELSE 0) + SumEntryWeights(doc.Services, DOMAIN doc.Services)
    + TypedWeight(doc.Networks) + TypedWeight(doc.Volumes)

TypedMaps(K, w) == {NoEntries} \cup {Entries(m) : m \in WeightedMaps(K, ResourceEntries, w) \ {<<>>}}

MergeDocsUpTo(w) ==
    {doc \in [Name : ProjectNames, Services : WeightedMaps(MergeNames, MergeServiceEntries, w),
              Networks : TypedMaps(ResourceNames, w), Volumes : TypedMaps(VolumeNames, w)] : MergeDocWeight(doc) <= w}

RECURSIVE MergeFileLists(_, _)
MergeFileLists(k, w) ==
    IF k = 0 THEN {<<>>}
    ELSE {<<>>} \cup UNION {{<<OkFile(doc)>> \o rest : rest \in MergeFileLists(k - 1, w - MergeDocWeight(doc))}
                            : doc \in MergeDocsUpTo(w)}

MergeInputs == MergeFileLists(MaxFiles, MaxMerge) \ {<<>>}

\* ---- Load: project directories ----------------------------------------------
\* A default file whose content names the file it is.
MarkedDoc(f) == ComposeFile(f, [n \in {1} |-> ImageService(f, RawNil)], NoEntries, NoEntries)

DirContents ==
    UNION {{d \in [S -> {"ok", "unreadable", "malformed"}] : TRUE} : S \in SUBSET Range(defaultComposeFiles)}

DirOf(d) ==
    [f \in DOMAIN d |-> IF d[f] = "ok" THEN OkFile(MarkedDoc(f))
                        ELSE IF d[f] = "unreadable" THEN UnreadableFile ELSE MalformedFile]

\* ---- interpolateEnv ------------------------------------------------------
\* Text is a sequence of one-character strings.
\* os.LookupEnv: the value of a variable and whether it is set.
Unset == [set |-> FALSE, val |-> <<>>]
SetTo(v) == [set |-> TRUE, val |-> v]
LookupEnv(e, name) == IF name \in DOMAIN e THEN e[name] ELSE Unset
\* os.Getenv: the value, or the empty string when unset.
Getenv(e, name) == LookupEnv(e, name).val

\* strings.Index, 1-based; 0 when sub does not occur in s.
Index(s, sub) ==
    LET hits == {k \in 1..(Len(s) - Len(sub) + 1) : SubSeq(s, k, k + Len(sub) - 1) = sub}
    IN IF hits = {} THEN 0 ELSE CHOOSE k \in hits : \A h \in hits : k <= h

\* envVarPattern \$\{([^}]+)\} anchored at position i: the index of the
\* closing brace of the match, 0 when there is no match at i.
MatchAt(s, i) ==
    IF i + 1 <= Len(s) /\ s[i] = "$" /\ s[i + 1] = "{"
    THEN LET closers == {j \in (i + 2)..Len(s) : s[j] = "}"}
         IN IF closers = {} THEN 0
            ELSE LET j == CHOOSE c \in closers : \A d \in closers : c <= d
                 IN IF j >= i + 3 THEN j ELSE 0
    ELSE 0

\* Which of the three forms the callback takes for an inner text.
RuleOfDashFirst(inner) ==
    IF Index(inner, <<"-">>) > 0 THEN "dash"
    ELSE IF Index(inner, <<":", "-">>) > 0 THEN "colon-dash"
    ELSE "plain"
RuleOf(inner) ==
    IF Index(inner, <<":", "-">>) > 0 THEN "colon-dash"
    ELSE IF Index(inner, <<"-">>) > 0 THEN "dash"
    ELSE "plain"

\* `if val, ok := os.LookupEnv(varName); ok && val != ""`
UseValueColonDashIfSet(v) == v.set
UseValueColonDash(v) == v.set /\ v.val # <<>>

\* `if val, ok := os.LookupEnv(varName); ok`
UseValueDashIfNonEmpty(v) == v.set /\ v.val # <<>>
UseValueDash(v) == v.set

\* The callback of ReplaceAllStringFunc, applied to the inner text.
Expand(inner, e) ==
    IF RuleOf(inner) = "colon-dash"
    THEN LET idx == Index(inner, <<":", "-">>)
             v == LookupEnv(e, SubSeq(inner, 1, idx - 1))
         IN IF UseValueColonDash(v) THEN v.val ELSE SubSeq(inner, idx + 2, Len(inner))
    ELSE IF RuleOf(inner) = "dash"
    THEN LET idx == Index(inner, <<"-">>)
             v == LookupEnv(e, SubSeq(inner, 1, idx - 1))
         IN IF UseValueDash(v) THEN v.val ELSE SubSeq(inner, idx + 1, Len(inner))
    ELSE Getenv(e, inner)

\* ReplaceAllStringFunc from position i on: leftmost non-overlapping matches,
\* replacements are not scanned again.
RECURSIVE ReplaceFrom(_, _, _)
ReplaceFrom(s, i, e) ==
    IF i > Len(s) THEN <<>>
    ELSE LET j == MatchAt(s, i)
         IN IF j > 0
            THEN Expand(SubSeq(s, i + 2, j - 1), e) \o ReplaceFrom(s, j + 1, e)
            ELSE <<s[i]>> \o ReplaceFrom(s, i + 1, e)

interpolateEnv(s, e) == ReplaceFrom(s, 1, e)

\* ---- interpolateEnv: inputs ----------------------------------------------
RECURSIVE Strings(_, _)
\* All texts over the characters C of length at most n.
Strings(C, n) ==
    IF n = 0 THEN {<<>>}
    ELSE LET shorter == Strings(C, n - 1)
         IN shorter \cup {Append(t, c) : t \in {u \in shorter : Len(u) = n - 1}, c \in C}

Ref(inner) == <<"$", "{">> \o inner \o <<"}">>

InnerChars == {"A", "B", ":", "-"}
ScanChars == {"$", "{", "}", "A"}

EnvNames == {<<"A">>, <<"A", "-", "B">>}
EnvValues == {Unset, SetTo(<<>>), SetTo(<<"v">>)}
Environments == [EnvNames -> EnvValues]

InterpTexts ==
    {Ref(inner) : inner \in Strings(InnerChars, MaxInner) \ {<<>>}}
    \cup Strings(ScanChars, MaxScan)
    \cup {pre \o Ref(i1) \o mid \o Ref(i2) \o post :
            pre \in {<<>>, <<"$">>}, i1 \in {<<"A">>, <<"B">>}, mid \in {<<>>, <<"B">>},
            i2 \in {<<"A">>, <<"A", "-">>}, post \in {<<>>, <<"}">>}}

\* ---- resolveService: pieces ------------------------------------------------
\* unicode.IsSpace on the characters the texts use.
IsSpaceBlankOnly(c) == c = " "
IsSpace(c) == c \in {" ", "\t", "\n", "\r"}

\* strings.Fields: the maximal runs of non-space characters, left to right.
RECURSIVE FieldsFrom(_, _, _)
FieldsFrom(s, i, cur) ==
    IF i > Len(s) THEN (IF cur = <<>> THEN <<>> ELSE <<cur>>)
    ELSE IF IsSpace(s[i])
    THEN (IF cur = <<>> THEN <<>> ELSE <<cur>>) \o FieldsFrom(s, i + 1, <<>>)
    ELSE FieldsFrom(s, i + 1, Append(cur, s[i]))

Fields(s) == FieldsFrom(s, 1, <<>>)

splitCommand(s) == Fields(s)

\* A []string and a map[string]string, the normalised forms.
StringList(ts) == [kind |-> "strings", val |-> ts]
StringMap(m) == [kind |-> "stringmap", val |-> m]

resolveCommand(v) ==
    IF v.kind = "nil" THEN [err |-> FALSE, val |-> RawNil]
    ELSE IF v.kind = "string" THEN [err |-> FALSE, val |-> StringList(splitCommand(v.val))]
    ELSE IF v.kind = "list"
    THEN [err |-> FALSE, val |-> StringList([i \in 1..Len(v.val) |-> Sprintv(v.val[i])])]
    ELSE IF v.kind = "strings" THEN [err |-> FALSE, val |-> v]
    ELSE [err |-> TRUE, val |-> RawNil]

\* strings.Cut(s, "="): the position of the separator, 0 when s has none.
CutIndexLast(s) ==
    LET hits == {k \in 1..Len(s) : s[k] = "="}
    IN IF hits = {} THEN 0 ELSE CHOOSE k \in hits : \A h \in hits : h <= k
CutIndex(s) == Index(s, <<"=">>)

\* The loop over the items of an environment list, first k items.
RECURSIVE EnvOfList(_, _, _)
EnvOfList(items, k, e) ==
    IF k = 0 THEN <<>>
    ELSE LET result == EnvOfList(items, k - 1, e)
             s == Sprintv(items[k])
             c == CutIndex(s)
             key == IF c > 0 THEN SubSeq(s, 1, c - 1) ELSE s
             value == IF c > 0 THEN SubSeq(s, c + 1, Len(s)) ELSE Getenv(e, s)
         IN [x \in (DOMAIN result) \cup {key} |-> IF x = key THEN value ELSE result[x]]

resolveEnvironment(v, e) ==
    IF v.kind = "nil" THEN [err |-> FALSE, val |-> RawNil]
    ELSE IF v.kind = "map"
    THEN [err |-> FALSE,
          val |-> StringMap([k \in DOMAIN v.val |->
                               IF v.val[k].t = "null" THEN Getenv(e, k) ELSE Sprintv(v.val[k])])]
    ELSE IF v.kind = "stringmap" THEN [err |-> FALSE, val |-> v]
    ELSE IF v.kind = "list" THEN [err |-> FALSE, val |-> StringMap(EnvOfList(v.val, Len(v.val), e))]
    ELSE [err |-> TRUE, val |-> RawNil]

\* An item of a raw list that is itself a mapping.
RawItemMap(m) == [t |-> "map", v |-> m]

\* resolveEnvFile: a string is one path; of a list, the strings and the path
\* of the mappings that have one are kept, every other item is skipped.
RECURSIVE EnvFilePaths(_)
EnvFilePaths(items) ==
    IF items = <<>> THEN <<>>
    ELSE LET item == Head(items)
             kept == IF item.t = "str" THEN <<item.v>>
                     ELSE IF item.t = "map" /\ "path" \in DOMAIN item.v THEN <<Sprintv(item.v["path"])>>
                     ELSE <<>>
         IN kept \o EnvFilePaths(Tail(items))

resolveEnvFile(v) ==
    IF v.kind = "nil" THEN [err |-> FALSE, val |-> RawNil]
    ELSE IF v.kind = "string" THEN [err |-> FALSE, val |-> StringList(<<v.val>>)]
    ELSE IF v.kind = "list" THEN [err |-> FALSE, val |-> StringList(EnvFilePaths(v.val))]
    ELSE IF v.kind = "strings" THEN [err |-> FALSE, val |-> v]
    ELSE [err |-> TRUE, val |-> RawNil]

resolveStringOrListKeepString(v) ==
    IF v.kind = "nil" THEN [err |-> FALSE, val |-> RawNil]
    ELSE IF v.kind = "string" THEN [err |-> FALSE, val |-> v]
    ELSE IF v.kind = "list"
    THEN [err |-> FALSE, val |-> StringList([i \in 1..Len(v.val) |-> Sprintv(v.val[i])])]
    ELSE IF v.kind = "strings" THEN [err |-> FALSE, val |-> v]
    ELSE [err |-> TRUE, val |-> RawNil]
resolveStringOrList(v) ==
    IF v.kind = "nil" THEN [err |-> FALSE, val |-> RawNil]
    ELSE IF v.kind = "string" THEN [err |-> FALSE, val |-> StringList(<<v.val>>)]
    ELSE IF v.kind = "list"
    THEN [err |-> FALSE, val |-> StringList([i \in 1..Len(v.val) |-> Sprintv(v.val[i])])]
    ELSE IF v.kind = "strings" THEN [err |-> FALSE, val |-> v]
    ELSE [err |-> TRUE, val |-> RawNil]

\* resolveNetworks: a list becomes a mapping from its items to nil.
resolveNetworks(v) ==
    IF v.kind = "nil" THEN [err |-> FALSE, val |-> RawNil]
    ELSE IF v.kind = "list"
    THEN [err |-> FALSE, val |-> RawMap([n \in {Sprintv(v.val[i]) : i \in 1..Len(v.val)} |-> RawNil])]
    ELSE IF v.kind = "map" THEN [err |-> FALSE, val |-> v]
    ELSE [err |-> TRUE, val |-> RawNil]

\* *BuildConfig, with the fields that are plain strings.
BuildConfig(context, dockerfile, target) ==
    [kind |-> "build", val |-> [Context |-> context, Dockerfile |-> dockerfile, Target |-> target]]

BuildKey(m, k) == IF k \in DOMAIN m THEN Sprintv(m[k]) ELSE <<>>

resolveBuild(v) ==
    IF v.kind = "nil" THEN [err |-> FALSE, val |-> RawNil]
    ELSE IF v.kind = "build" THEN [err |-> FALSE, val |-> v]
    ELSE IF v.kind = "string" THEN [err |-> FALSE, val |-> BuildConfig(v.val, <<>>, <<>>)]
    ELSE IF v.kind = "map"
    THEN [err |-> FALSE,
          val |-> BuildConfig(BuildKey(v.val, "context"), BuildKey(v.val, "dockerfile"),
                              BuildKey(v.val, "target"))]
    ELSE [err |-> TRUE, val |-> RawNil]

\* The result of one field, under the name the error gives it.
FieldResult(name, r) == [field |-> name, err |-> r.err, val |-> r.val]

\* The position of the field resolveService returns at, 0 when none fails.
FirstFailingFromEnd(rs) ==
    LET bad == {i \in 1..Len(rs) : rs[i].err}
    IN IF bad = {} THEN 0 ELSE CHOOSE i \in bad : \A j \in bad : j <= i
FirstFailing(rs) ==
    LET bad == {i \in 1..Len(rs) : rs[i].err}
    IN IF bad = {} THEN 0 ELSE CHOOSE i \in bad : \A j \in bad : i <= j

\* resolveService: the first field whose normalisation fails, or the
\* normalised service.
resolveService(svc, e) ==
    LET rs == << FieldResult("command", resolveCommand(svc.Command)),
                 FieldResult("entrypoint", resolveCommand(svc.Entrypoint)),
                 FieldResult("environment", resolveEnvironment(svc.Environment, e)),
                 FieldResult("env_file", resolveEnvFile(svc.EnvFile)),
                 FieldResult("depends_on", resolveDependsOn(svc.DependsOn)),
                 FieldResult("dns", resolveStringOrList(svc.DNS)),
                 FieldResult("dns_search", resolveStringOrList(svc.DNSSearch)),
                 FieldResult("tmpfs", resolveStringOrList(svc.Tmpfs)),
                 FieldResult("networks", resolveNetworks(svc.Networks)),
                 FieldResult("build", resolveBuild(svc.Build)) >>
        k == FirstFailing(rs)
    IN IF k # 0 THEN [err |-> TRUE, field |-> rs[k].field, svc |-> svc]
       ELSE [err |-> FALSE, field |-> "",
             svc |-> [svc EXCEPT !.Command = rs[1].val, !.Entrypoint = rs[2].val,
                                 !.Environment = rs[3].val, !.EnvFile = rs[4].val,
                                 !.DependsOn = rs[5].val, !.DNS = rs[6].val,
                                 !.DNSSearch = rs[7].val, !.Tmpfs = rs[8].val,
                                 !.Networks = rs[9].val, !.Build = rs[10].val]]

\* ---- resolveService: inputs ------------------------------------------------
CmdChars == {"a", "b", " ", "\t"}
CmdItems == {RawStr(<<"a">>), RawStr(<<"a", " ", "b">>), RawNum(<<"1">>), RawNull}

ItemLists(I, n) == UNION {[1..k -> I] : k \in 0..n}

RawCommands ==
    {RawNil, RawScalar}
    \cup {RawText(t) : t \in Strings(CmdChars, MaxCmdLen)}
    \cup {RawList(l) : l \in ItemLists(CmdItems, MaxItems)}

EnvChars == {"A", "="}
EnvItems == {RawStr(t) : t \in Strings(EnvChars, MaxItemLen)}

RawEnvironments ==
    {RawNil, RawScalar, RawText(<<"A">>)}
    \cup {RawList(l) : l \in ItemLists(EnvItems, MaxItems)}
    \cup {RawMap(m) : m \in [{<<"A">>} -> {RawNull, RawStr(<<"=">>), RawNum(<<"1">>)}]}

NormEnvs == [{<<"A">>} -> EnvValues]

\* The values of one depends_on mapping entry: null, a scalar, or a mapping
\* with or without condition and restart.
RichConditions ==
    {RawNil, RawScalar}
    \cup {RawMap(m) : m \in UNION {
            {f \in [K -> {RawStr("service_started"), RawStr("service_healthy"),
                          RawStr("service_completed_successfully"), RawStr("bogus"),
                          RawBool("true"), RawBool("false"), RawStr("yes")}] :
               /\ "condition" \in K => f["condition"].t = "str" /\ f["condition"].v # "yes"
               /\ "restart" \in K => f["restart"] \in {RawBool("true"), RawBool("false"), RawStr("yes")}}
            : K \in SUBSET {"condition", "restart"}}}

DepNames == {1, 2}

RichDependsOn ==
    {RawNil, RawScalar}
    \cup {RawList(l) : l \in UNION {[1..k -> DepNames] : k \in 1..2}}
    \cup {RawMap(m) : m \in UNION {[K -> RichConditions] : K \in (SUBSET DepNames) \ {{}}}}

CommandServices == {[Service(RawNil) EXCEPT !.Command = c] : c \in RawCommands}
EntrypointServices == {[Service(RawNil) EXCEPT !.Entrypoint = c] : c \in RawCommands}
EnvironmentServices == {[Service(RawNil) EXCEPT !.Environment = v] : v \in RawEnvironments}
DependsOnServices == {Service(d) : d \in RichDependsOn}

\* ---- resolveService: shapes of the flexible fields --------------------------
\* The interface{} fields in the order resolveService normalises them.
FlexFields ==
    <<"Command", "Entrypoint", "Environment", "EnvFile", "DependsOn",
      "DNS", "DNSSearch", "Tmpfs", "Networks", "Build">>

\* For each field the shapes a document gives it: the supported ones and
\* one that its type switch sends to the default case.
ShapesOf(f) ==
    CASE f = "Command" -> {RawText(<<"a">>), RawList(<<RawStr(<<"a">>)>>), RawMap(<<>>)}
      [] f = "Entrypoint" -> {RawText(<<"a">>), RawScalar}
      [] f = "Environment" ->
            {RawList(<<RawStr(<<"A", "=">>)>>), RawMap([k \in {<<"A">>} |-> RawStr(<<"v">>)]),
             RawText(<<"A">>)}
      [] f = "EnvFile" ->
            {RawText(<<"e">>),
             RawList(<<RawStr(<<"e">>), RawItemMap([k \in {"path"} |-> RawStr(<<"f">>)]), RawNum(<<"1">>)>>),
             RawMap(<<>>)}
      [] f = "DependsOn" ->
            {RawList(<<1>>), RawMap([n \in {2} |-> RawMap([k \in {"condition"} |-> RawStr("service_healthy")])]),
             RawText(<<"a">>)}
      [] f = "DNS" -> {RawText(<<"d">>), RawList(<<RawStr(<<"d">>), RawNum(<<"1">>)>>), RawMap(<<>>)}
      [] f = "DNSSearch" -> {RawText(<<"d">>), RawScalar}
      [] f = "Tmpfs" -> {RawList(<<RawStr(<<"t">>)>>), RawScalar}
      [] f = "Networks" ->
            {RawList(<<RawStr(<<"n">>)>>), RawMap([k \in {<<"n">>} |-> RawNil]), RawText(<<"n">>)}
      [] f = "Build" -> {RawText(<<".">>), RawMap([k \in {"context"} |-> RawStr(<<".">>)]), RawList(<<>>)}

RECURSIVE ShapeChoices(_)
ShapeChoices(K) ==
    IF K = {} THEN {<<>>}
    ELSE LET f == CHOOSE x \in K : TRUE
         IN {[x \in K |-> IF x = f THEN v ELSE g[x]] : g \in ShapeChoices(K \ {f}), v \in ShapesOf(f)}

WithFields(g) == [f \in DOMAIN Service(RawNil) |-> IF f \in DOMAIN g THEN g[f] ELSE Service(RawNil)[f]]

\* The services with exactly k flexible fields present.
ShapedServices(k) ==
    UNION {{WithFields(g) : g \in ShapeChoices(K)} : K \in {L \in SUBSET Range(FlexFields) : Cardinality(L) = k}}

ShapeNames == {1, 2}

\* The documents of one or two services with at most w flexible fields in all.
ShapeDocs(w) ==
    UNION {{[n \in {a} |-> svc] : svc \in UNION {ShapedServices(k) : k \in 0..w}} : a \in ShapeNames}
    \cup UNION {UNION {{[n \in ShapeNames |-> IF n = 1 THEN s1 ELSE s2] :
                           s1 \in ShapedServices(k1), s2 \in ShapedServices(k2)}
                       : k2 \in 0..(w - k1)}
                : k1 \in 0..w}

\* ---- compose up and down: pieces ---------------------------------------------
\* runner.Run: the command exits with 0 ("ok"); it cannot be run and an error
\* is returned ("error"); or it exits with another status and Run ends the
\* whole process with os.Exit ("exit").
RunOutcomes == {"ok", "error", "exit"}

\* SaveProject and DeleteProject succeed or return an error.
FileOutcomes == {"ok", "error"}

containerNameDash(project, service) == <<project, "-", service>>
containerName(project, service) == <<project, "_", service>>

\* ResolveProjectName without a --project-name flag: the name of the compose
\* file, else the base name of the project directory.
ResolveProjectName(composeFile, base) == IF composeFile.Name # "" THEN composeFile.Name ELSE base

ProjectDirBase == "dir"

\* netName / volName of lines 352-355 and 371-374.
ResourceNameKeyOnly(name, x) == name
ResourceName(name, x) == IF x.Name # "" THEN x.Name ELSE name

\* One invocation of the container CLI by the command cmd, and how it ended.
Command(cmd, op, name, o) == [cmd |-> cmd, op |-> op, name |-> name, outcome |-> o]

\* svc.Build.(*compose.BuildConfig) with ok && bc != nil
HasBuild(svc) == svc.Build.kind = "build"

\* The condition of lines 410-416 under which a service is run.
CanStart(svc) == svc.Image # "" \/ HasBuild(svc)

\* The keys of cf.Networks / cf.Volumes.
EntryNames(m) == IF m.kind = "nil" THEN {} ELSE DOMAIN m.val

ProjectState(name, cs, nets, vols) ==
    [saved |-> TRUE, Name |-> name, Containers |-> cs, Networks |-> nets, Volumes |-> vols]

\* The index the rollback loop of lines 425-428 visits next.
NextToStop(left) == CHOOSE i \in left : \A j \in left : j <= i

\* The index a loop over a slice visits next.
NextIndex(left) == CHOOSE i \in left : \A j \in left : i <= j

\* ---- buildRunArgs (cmd/compose.go:218-320) -----------------------------------
\* One flag of the argument list with its value; the positional arguments
\* (run, the image, the words of the command) are tagged by what they are.
Arg(flag, val) == [flag |-> flag, val |-> val]

Flagged(flag, vals) == [i \in 1..Len(vals) |-> Arg(flag, vals[i])]

\* The argument list for a service with the fields of Service set; envOrder
\* and netOrder are the orders in which the loops of lines 235 and 305 visit
\* the environment and the networks mapping.
buildRunArgs(svc, project, svcName, envOrder, netOrder) ==
    <<Arg("run", <<>>), Arg("--detach", <<>>), Arg("--name", containerName(project, svcName))>>
    \o (IF svc.Environment.kind = "stringmap"
        THEN [i \in 1..Len(envOrder) |->
                 Arg("--env", envOrder[i] \o <<"=">> \o svc.Environment.val[envOrder[i]])]
        ELSE <<>>)
    \o (IF svc.DNS.kind = "strings" THEN Flagged("--dns", svc.DNS.val) ELSE <<>>)
    \o (IF svc.Tmpfs.kind = "strings" THEN Flagged("--tmpfs", svc.Tmpfs.val) ELSE <<>>)
    \o (IF svc.Entrypoint.kind = "strings" /\ Len(svc.Entrypoint.val) > 0
        THEN <<Arg("--entrypoint", svc.Entrypoint.val[1])>> ELSE <<>>)
    \o (IF svc.Networks.kind = "map" /\ Len(netOrder) > 0
        THEN <<Arg("--network", netOrder[1])>> ELSE <<>>)
    \o <<Arg("image", svc.Image)>>
    \o (IF svc.Command.kind = "strings" THEN Flagged("command", svc.Command.val) ELSE <<>>)

\* The key set a range loop over field v visits, when v has the Go type kind.
KeysOfKind(v, kind) == IF v.kind = kind THEN DOMAIN v.val ELSE {}

\* ---- buildRunArgs: inputs ------------------------------------------------------
ArgsNetNames == {<<"n">>, <<"m">>, <<"o">>}

ArgsNetworks ==
    {RawNil}
    \cup {RawList(l) : l \in {m \in ItemLists({RawStr(n) : n \in ArgsNetNames}, MaxNets) : Len(m) > 0}}
    \cup {RawMap([n \in K |-> RawNil]) : K \in (SUBSET ArgsNetNames) \ {{}}}

ArgsEnvironments ==
    {RawNil} \cup {RawMap([k \in K |-> RawStr(<<"1">>)]) : K \in {{<<"A">>}, {<<"A">>, <<"B">>}}}

RawArgsServices ==
    {[Service(NilDependsOn) EXCEPT !.Image = "img", !.Networks = nets, !.Environment = e,
                                   !.Entrypoint = ep, !.Command = c, !.DNS = d]
        : nets \in ArgsNetworks, e \in ArgsEnvironments, ep \in {RawNil, RawText(<<"a", " ", "b">>)},
          c \in {RawNil, RawList(<<RawStr(<<"a">>)>>)}, d \in {RawNil, RawText(<<"d">>)}}

\* The services as Load leaves them.
ArgsServices == {resolveService(svc, <<>>).svc : svc \in RawArgsServices}

\* ---- compose up and down: inputs ---------------------------------------------
UpNames == {1, 2, 3}

UpService(img, build, K) == [ServiceOfKeys(K) EXCEPT !.Image = img, !.Build = build]

UpBuild == BuildConfig(<<".">>, <<>>, <<>>)

\* Dependencies among the services of S: no self-dependency, at most
\* MaxUpEdges entries.
UpDeps(S) ==
    {g \in [S -> SUBSET S] : (\A n \in S : n \notin g[n]) /\ EdgeCount(g) <= MaxUpEdges}

\* Services mappings: every service has an image, except at most one, which
\* has a build section or nothing.
UpServiceMaps ==
    UNION {UNION {
        {[n \in S |-> UpService("img", RawNil, g[n])]}
        \cup {[n \in S |-> IF n = x THEN UpService("", b, g[n]) ELSE UpService("img", RawNil, g[n])]
                : x \in S, b \in {RawNil, UpBuild}}
        : g \in UpDeps(S)} : S \in {{1}, {1, 2}, {1, 2, 3}}}

UpNetworkEntries == {Network(FALSE, ""), Network(TRUE, ""), Network(FALSE, "n2")}
UpVolumeEntries == {VolumeConfig(FALSE, ""), VolumeConfig(TRUE, "")}

UpNetworks == {NoEntries} \cup {Entries(m) : m \in UNION {[K -> UpNetworkEntries] : K \in (SUBSET {"n1", "n2"}) \ {{}}}}
UpVolumes == {NoEntries} \cup {Entries(m) : m \in UNION {[K -> UpVolumeEntries] : K \in (SUBSET {"v1"}) \ {{}}}}

\* The models the command works on: many services without networks and
\* volumes, or one service with them.
UpModels ==
    {Model(ComposeFile("p", svcs, NoEntries, NoEntries)) : svcs \in UpServiceMaps}
    \cup {Model(ComposeFile("p", [n \in {1} |-> UpService("img", RawNil, {})], nets, vols))
            : nets \in UpNetworks, vols \in UpVolumes}

\* A state file a former up of the project left.
OldState == ProjectState("p", [n \in {3} |-> containerName("p", 3)], <<>>, <<>>)

\* ---- state --------------------------------------------------------------
VARIABLES
    services,    \* the argument of ResolveOrder
    pc,          \* position inside ResolveOrder
    scanned,     \* names already visited by the loop of lines 17-30
    deps,        \* deps map
    counted,     \* names already visited by the loop of lines 45-50
    inDegree,    \* inDegree map
    dependents,  \* dependents map
    queue,
    order,
    result,      \* what the current call returned
    first,       \* what the first call returned (TestResolveOrder_Deterministic)
    calls,       \* completed calls
    files,       \* the files handed to Load, in order, as read and parsed
    cf,          \* what Load returned (the *ComposeFile)
    loadErr,     \* the error Load returned
    dir,         \* the default compose files present in the project directory
    env,         \* the process environment (os.LookupEnv)
    text,        \* the argument of interpolateEnv
    out,         \* what interpolateEnv returned
    phase,            \* position inside the compose command
    flags,            \* --build of up, --volumes of down
    issued,           \* the container CLI commands run so far, in order
    todo,             \* what the current loop has still to visit
    createdNetworks,  \* composeUpAction's createdNetworks
    createdVolumes,   \* composeUpAction's createdVolumes
    startedServices,  \* composeUpAction's startedServices
    containers,       \* composeUpAction's containers
    stateFile         \* the project state file on disk

composeVars ==
    <<phase, flags, issued, todo, createdNetworks, createdVolumes, startedServices, containers, stateFile>>

\* No compose command is running.
NoState == [saved |-> FALSE, Name |-> "", Containers |-> <<>>, Networks |-> <<>>, Volumes |-> <<>>]
NoFlags == [build |-> FALSE, volumes |-> FALSE]

ComposeIdle ==
    /\ phase = "idle"
    /\ flags = NoFlags
    /\ issued = <<>>
    /\ todo = {}
    /\ createdNetworks = <<>>
    /\ createdVolumes = <<>>
    /\ startedServices = <<>>
    /\ containers = <<>>
    /\ stateFile = NoState

vars == <<composeVars, dir, env, text, out, files, cf, loadErr, services, pc, scanned, deps, counted, inDegree, dependents, queue, order, result, first, calls>>

\* Entry of ResolveOrder: lines 10-15.
EnterResolveOrder ==
    /\ pc = "scan"
    /\ scanned = {}
    /\ deps = [n \in DOMAIN services |-> <<>>]
    /\ counted = {}
    /\ inDegree = [n \in DOMAIN services |-> 0]
    /\ dependents = [n \in Names |-> <<>>]
    /\ queue = <<>>
    /\ order = <<>>
    /\ result = NoResult

Init ==
    /\ dir = <<>>
    /\ env = <<>>
    /\ text = <<>>
    /\ out = <<>>
    /\ files = <<>>
    /\ cf = NoModel
    /\ loadErr = NoLoadError
    /\ services \in ServiceMaps
    /\ EnterResolveOrder
    /\ first = NoResult
    /\ ComposeIdle
    /\ calls = 0

\* One iteration of the loop of lines 17-30, for the service the map
\* iteration yields next; the inner loop visits the keys in any order.
ScanService ==
    /\ pc = "scan"
    /\ \E name \in (DOMAIN services) \ scanned :
        IF UndefinedDeps(services, name) # {}
        THEN \E dep \in UndefinedDeps(services, name) :
                /\ result' = UndefinedError(name, dep)
                /\ pc' = "done"
                /\ calls' = calls + 1
                /\ UNCHANGED <<scanned, deps>>
        ELSE \E p \in Perms(DepKeys(services, name)) :
                /\ deps' = [deps EXCEPT ![name] = p]
                /\ scanned' = scanned \cup {name}
                /\ UNCHANGED <<pc, result, calls>>
    /\ UNCHANGED <<composeVars, dir, env, text, out, files, cf, loadErr, services, counted, inDegree, dependents, queue, order, first>>

\* Lines 32-44: sort every dependency list, zero the in-degrees.
SortDeps ==
    /\ pc = "scan"
    /\ scanned = DOMAIN services
    /\ deps' = [n \in DOMAIN deps |-> SortDepList(deps[n])]
    /\ inDegree' = [n \in DOMAIN services |-> 0]
    /\ pc' = "indegree"
    /\ UNCHANGED <<composeVars, dir, env, text, out, files, cf, loadErr, services, scanned, counted, dependents, queue, order, result, first, calls>>

\* One iteration of the loop of lines 45-50.
CountService ==
    /\ pc = "indegree"
    /\ \E name \in (DOMAIN deps) \ counted :
        /\ inDegree' = [inDegree EXCEPT ![name] = CountDeps(deps[name])]
        /\ dependents' = AddDependents(dependents, deps[name], name)
        /\ counted' = counted \cup {name}
    /\ UNCHANGED <<composeVars, dir, env, text, out, files, cf, loadErr, services, pc, scanned, deps, queue, order, result, first, calls>>

\* Lines 52-59: collect the zero in-degree names in map order, then sort.
SeedQueue ==
    /\ pc = "indegree"
    /\ counted = DOMAIN deps
    /\ \E p \in Perms({n \in DOMAIN inDegree : inDegree[n] = 0}) :
        queue' = SortSeed(p)
    /\ pc' = "loop"
    /\ UNCHANGED <<composeVars, dir, env, text, out, files, cf, loadErr, services, scanned, deps, counted, inDegree, dependents, order, result, first, calls>>

\* One iteration of the loop of lines 62-77.
PopStep ==
    /\ pc = "loop"
    /\ Len(queue) > 0
    /\ LET current == Head(queue)
           children == SortChildren(dependents[current])
           r == Relax(children, inDegree, Tail(queue))
       IN /\ order' = Append(order, current)
          /\ dependents' = [dependents EXCEPT ![current] = children]
          /\ inDegree' = r.inDegree
          /\ queue' = r.queue
    /\ UNCHANGED <<composeVars, dir, env, text, out, files, cf, loadErr, services, pc, scanned, deps, counted, result, first, calls>>

\* Lines 79-91.
Return ==
    /\ pc = "loop"
    /\ Len(queue) = 0
    /\ IF IsIncomplete(order, services)
       THEN \E p \in Perms({n \in DOMAIN inDegree : IsCycled(inDegree[n])}) :
               result' = CycleError(SortStrings(p))
       ELSE result' = OkResult(order)
    /\ pc' = "done"
    /\ calls' = calls + 1
    /\ UNCHANGED <<composeVars, dir, env, text, out, files, cf, loadErr, services, scanned, deps, counted, inDegree, dependents, queue, order, first>>

\* The caller invokes ResolveOrder again on the same map (graph_test.go:146-147).
Reinvoke ==
    /\ pc = "done"
    /\ calls < MaxCalls
    /\ first' = IF calls = 1 THEN result ELSE first
    /\ pc' = "scan"
    /\ scanned' = {}
    /\ deps' = [n \in DOMAIN services |-> <<>>]
    /\ counted' = {}
    /\ inDegree' = [n \in DOMAIN services |-> 0]
    /\ dependents' = [n \in Names |-> <<>>]
    /\ queue' = <<>>
    /\ order' = <<>>
    /\ result' = NoResult
    /\ UNCHANGED <<composeVars, dir, env, text, out, files, cf, loadErr, services, calls>>

Next ==
    \/ ScanService
    \/ SortDeps
    \/ CountService
    \/ SeedQueue
    \/ PopStep
    \/ Return
    \/ Reinvoke

Spec == Init /\ [][Next]_vars

\* ResolveOrder is sequential code: whenever a step is possible it is taken.
FairSpec == Init /\ [][Next]_vars /\ WF_vars(Next)

\* ---- Load ---------------------------------------------------------------
\* The files Load reads: the ones given, or the default file it found.
FilesToLoad == IF Len(files) = 0 THEN <<dir[findDefaultFile(dir)]>> ELSE files

BadFiles == {i \in 1..Len(FilesToLoad) : FilesToLoad[i].status # "ok"}

\* Load (parser.go:24-81) followed by the hand-over to ResolveOrder
\* (cmd/compose.go:198-201, 400): read and parse each file in order, merge,
\* then normalise every service in map order.
Load ==
    /\ pc = "load"
    /\ IF Len(files) = 0 /\ findDefaultFile(dir) = ""
       THEN /\ loadErr' = NotFoundError(defaultComposeFiles)
            /\ cf' = NoModel
            /\ pc' = "done"
            /\ UNCHANGED <<services, deps, inDegree>>
       ELSE IF BadFiles # {}
       THEN LET i == CHOOSE j \in BadFiles : \A k \in BadFiles : j <= k
            IN /\ loadErr' = IF FilesToLoad[i].status = "unreadable" THEN ReadError(i) ELSE ParseError(i)
               /\ cf' = NoModel
               /\ pc' = "done"
               /\ UNCHANGED <<services, deps, inDegree>>
       ELSE LET merged == MergeFiles(FilesToLoad, Len(FilesToLoad))
                failing == {n \in DOMAIN merged.Services : resolveService(merged.Services[n], env).err}
            IN IF failing # {}
               THEN \E n \in failing :
                       /\ loadErr' = ServiceError(n, resolveService(merged.Services[n], env).field)
                       /\ cf' = NoModel
                       /\ pc' = "done"
                       /\ UNCHANGED <<services, deps, inDegree>>
               ELSE /\ loadErr' = NoLoadError
                    /\ cf' = Model([merged EXCEPT !.Services =
                                      [n \in DOMAIN merged.Services |-> resolveService(merged.Services[n], env).svc]])
                    /\ services' = cf'.Services
                    /\ deps' = [n \in DOMAIN services' |-> <<>>]
                    /\ inDegree' = [n \in DOMAIN services' |-> 0]
                    /\ pc' = "scan"
    /\ UNCHANGED <<composeVars, dir, env, text, out, files, scanned, counted, dependents, queue, order, result, first, calls>>

LoadInit ==
    /\ dir = <<>>
    /\ env = <<>>
    /\ text = <<>>
    /\ out = <<>>
    /\ files \in LoadInputs
    /\ cf = NoModel
    /\ loadErr = NoLoadError
    /\ pc = "load"
    /\ services = <<>>
    /\ scanned = {}
    /\ deps = <<>>
    /\ counted = {}
    /\ inDegree = <<>>
    /\ dependents = [n \in Names |-> <<>>]
    /\ queue = <<>>
    /\ order = <<>>
    /\ result = NoResult
    /\ first = NoResult
    /\ ComposeIdle
    /\ calls = 0

LoadNext ==
    \/ Load
    \/ ScanService
    \/ SortDeps
    \/ CountService
    \/ SeedQueue
    \/ PopStep
    \/ Return

LoadSpec == LoadInit /\ [][LoadNext]_vars

\* ---- Load of several files, or of the default file ---------------------------
FilesInit ==
    /\ \/ files \in MergeInputs /\ dir = <<>>
       \/ files = <<>> /\ dir \in {DirOf(d) : d \in DirContents}
    /\ env = <<>>
    /\ text = <<>>
    /\ out = <<>>
    /\ cf = NoModel
    /\ loadErr = NoLoadError
    /\ pc = "load"
    /\ services = <<>>
    /\ scanned = {}
    /\ deps = <<>>
    /\ counted = {}
    /\ inDegree = <<>>
    /\ dependents = [n \in Names |-> <<>>]
    /\ queue = <<>>
    /\ order = <<>>
    /\ result = NoResult
    /\ first = NoResult
    /\ ComposeIdle
    /\ calls = 0

FilesSpec == FilesInit /\ [][LoadNext]_vars

\* ---- Load of one file with one service -------------------------------------
NormInit ==
    /\ \E svc \in CommandServices \cup EntrypointServices \cup EnvironmentServices \cup DependsOnServices :
          /\ files = <<OkFile(ComposeDoc([n \in {1} |-> svc]))>>
          /\ env \in (IF svc \in EnvironmentServices THEN NormEnvs ELSE {<<>>})
    /\ dir = <<>>
    /\ text = <<>>
    /\ out = <<>>
    /\ cf = NoModel
    /\ loadErr = NoLoadError
    /\ pc = "load"
    /\ services = <<>>
    /\ scanned = {}
    /\ deps = <<>>
    /\ counted = {}
    /\ inDegree = <<>>
    /\ dependents = [n \in Names |-> <<>>]
    /\ queue = <<>>
    /\ order = <<>>
    /\ result = NoResult
    /\ first = NoResult
    /\ ComposeIdle
    /\ calls = 0

NormSpec == NormInit /\ [][LoadNext]_vars

\* ---- Load of one file whose services have fields of every shape -------------
ShapeInit ==
    /\ \E svcs \in ShapeDocs(MaxRich) : files = <<OkFile(ComposeDoc(svcs))>>
    /\ env = <<>>
    /\ dir = <<>>
    /\ text = <<>>
    /\ out = <<>>
    /\ cf = NoModel
    /\ loadErr = NoLoadError
    /\ pc = "load"
    /\ services = <<>>
    /\ scanned = {}
    /\ deps = <<>>
    /\ counted = {}
    /\ inDegree = <<>>
    /\ dependents = [n \in Names |-> <<>>]
    /\ queue = <<>>
    /\ order = <<>>
    /\ result = NoResult
    /\ first = NoResult
    /\ ComposeIdle
    /\ calls = 0

ShapeSpec == ShapeInit /\ [][LoadNext]_vars

\* ---- compose up (cmd/compose.go:337-456) ---------------------------------------
loadVars == <<dir, env, text, out, files, cf, loadErr>>
resolveVars ==
    <<services, pc, scanned, deps, counted, inDegree, dependents, queue, order, result, first, calls>>

Project == ResolveProjectName(cf, ProjectDirBase)

\* One iteration of the loop of lines 348-363.
CreateNetwork ==
    /\ phase = "up-networks"
    /\ \E name \in todo :
          LET net == cf.Networks.val[name]
              netName == ResourceName(name, net)
          IN /\ todo' = todo \ {name}
             /\ IF net.External
                THEN UNCHANGED <<issued, createdNetworks, phase>>
                ELSE \E o \in RunOutcomes :
                        /\ issued' = Append(issued, Command("up", "network create", netName, o))
                        /\ createdNetworks' = IF o = "ok" THEN Append(createdNetworks, netName)
                                              ELSE createdNetworks
                        /\ phase' = IF o = "exit" THEN "up-exited" ELSE phase
    /\ UNCHANGED <<flags, createdVolumes, startedServices, containers, stateFile, loadVars, resolveVars>>

NetworksDone ==
    /\ phase = "up-networks"
    /\ todo = {}
    /\ phase' = "up-volumes"
    /\ todo' = EntryNames(cf.Volumes)
    /\ UNCHANGED <<flags, issued, createdNetworks, createdVolumes, startedServices, containers,
                   stateFile, loadVars, resolveVars>>

\* One iteration of the loop of lines 367-382.
CreateVolume ==
    /\ phase = "up-volumes"
    /\ \E name \in todo :
          LET vol == cf.Volumes.val[name]
              volName == ResourceName(name, vol)
          IN /\ todo' = todo \ {name}
             /\ IF vol.External
                THEN UNCHANGED <<issued, createdVolumes, phase>>
                ELSE \E o \in RunOutcomes :
                        /\ issued' = Append(issued, Command("up", "volume create", volName, o))
                        /\ createdVolumes' = IF o = "ok" THEN Append(createdVolumes, volName)
                                             ELSE createdVolumes
                        /\ phase' = IF o = "exit" THEN "up-exited" ELSE phase
    /\ UNCHANGED <<flags, createdNetworks, startedServices, containers, stateFile, loadVars, resolveVars>>

\* Line 400: ResolveOrder is entered on cf.Services.
CallResolveOrder ==
    /\ phase' = "up-resolve"
    /\ todo' = {}
    /\ services' = cf.Services
    /\ pc' = "scan"
    /\ scanned' = {}
    /\ deps' = [n \in DOMAIN cf.Services |-> <<>>]
    /\ counted' = {}
    /\ inDegree' = [n \in DOMAIN cf.Services |-> 0]
    /\ dependents' = [n \in Names |-> <<>>]
    /\ queue' = <<>>
    /\ order' = <<>>
    /\ result' = NoResult
    /\ UNCHANGED <<first, calls>>

VolumesDone ==
    /\ phase = "up-volumes"
    /\ todo = {}
    /\ IF flags.build
       THEN /\ phase' = "up-build"
            /\ todo' = DOMAIN cf.Services
            /\ UNCHANGED resolveVars
       ELSE CallResolveOrder
    /\ UNCHANGED <<flags, issued, createdNetworks, createdVolumes, startedServices, containers,
                   stateFile, loadVars>>

\* One iteration of the loop of lines 386-396.
BuildImage ==
    /\ phase = "up-build"
    /\ \E svcName \in todo :
          /\ todo' = todo \ {svcName}
          /\ IF ~HasBuild(cf.Services[svcName])
             THEN UNCHANGED <<issued, phase>>
             ELSE \E o \in RunOutcomes :
                     /\ issued' = Append(issued, Command("up", "build", svcName, o))
                     /\ phase' = IF o = "ok" THEN phase
                                 ELSE IF o = "error" THEN "up-failed" ELSE "up-exited"
    /\ UNCHANGED <<flags, createdNetworks, createdVolumes, startedServices, containers, stateFile,
                   loadVars, resolveVars>>

BuildDone ==
    /\ phase = "up-build"
    /\ todo = {}
    /\ CallResolveOrder
    /\ UNCHANGED <<flags, issued, createdNetworks, createdVolumes, startedServices, containers,
                   stateFile, loadVars>>

\* Lines 401-407: ResolveOrder has returned.
ResolveDone ==
    /\ phase = "up-resolve"
    /\ pc = "done"
    /\ phase' = IF result.err # "none" THEN "up-failed" ELSE "up-start"
    /\ UNCHANGED <<flags, issued, todo, createdNetworks, createdVolumes, startedServices, containers,
                   stateFile, loadVars, resolveVars>>

\* One iteration of the loop of lines 408-433, up to the rollback.
StartService ==
    /\ phase = "up-start"
    /\ Len(startedServices) < Len(result.order)
    /\ LET svcName == result.order[Len(startedServices) + 1]
           cName == containerName(Project, svcName)
       IN IF ~CanStart(cf.Services[svcName])
          THEN /\ phase' = "up-failed"
               /\ UNCHANGED <<issued, todo, startedServices, containers>>
          ELSE \E o \in RunOutcomes :
                  /\ issued' = Append(issued, Command("up", "run", cName, o))
                  /\ IF o = "ok"
                     THEN /\ startedServices' = Append(startedServices, svcName)
                          /\ containers' = [n \in (DOMAIN containers) \cup {svcName} |->
                                               IF n = svcName THEN cName ELSE containers[n]]
                          /\ UNCHANGED <<phase, todo>>
                     ELSE IF o = "error"
                     THEN /\ phase' = "up-rollback"
                          /\ todo' = 1..Len(startedServices)
                          /\ UNCHANGED <<startedServices, containers>>
                     ELSE /\ phase' = "up-exited"
                          /\ UNCHANGED <<todo, startedServices, containers>>
    /\ UNCHANGED <<flags, createdNetworks, createdVolumes, stateFile, loadVars, resolveVars>>

\* One iteration of the rollback loop of lines 425-428.
RollbackStop ==
    /\ phase = "up-rollback"
    /\ todo # {}
    /\ LET i == NextToStop(todo)
       IN /\ todo' = todo \ {i}
          /\ \E o \in RunOutcomes :
                /\ issued' = Append(issued, Command("up", "stop",
                                                     containerName(Project, startedServices[i]), o))
                /\ phase' = IF o = "exit" THEN "up-exited" ELSE phase
    /\ UNCHANGED <<flags, createdNetworks, createdVolumes, startedServices, containers, stateFile,
                   loadVars, resolveVars>>

\* Line 429.
RollbackDone ==
    /\ phase = "up-rollback"
    /\ todo = {}
    /\ phase' = "up-failed"
    /\ UNCHANGED <<flags, issued, todo, createdNetworks, createdVolumes, startedServices, containers,
                   stateFile, loadVars, resolveVars>>

\* Lines 435-455.
SaveProject ==
    /\ phase = "up-start"
    /\ Len(startedServices) = Len(result.order)
    /\ \E o \in FileOutcomes :
          IF o = "ok"
          THEN /\ stateFile' = ProjectState(Project, containers, createdNetworks, createdVolumes)
               /\ phase' = "up-ok"
          ELSE /\ phase' = "up-failed"
               /\ UNCHANGED stateFile
    /\ UNCHANGED <<flags, issued, todo, createdNetworks, createdVolumes, startedServices, containers,
                   loadVars, resolveVars>>

\* ---- compose down (cmd/compose.go:458-505) -------------------------------------
\* Lines 459-467, in a later invocation on the same project.
BeginDown ==
    /\ phase \in {"up-ok", "up-failed", "up-exited"}
    /\ IF stateFile.saved
       THEN /\ phase' = "down-containers"
            /\ todo' = DOMAIN stateFile.Containers
       ELSE /\ phase' = "down-failed"
            /\ UNCHANGED todo
    /\ UNCHANGED <<flags, issued, createdNetworks, createdVolumes, startedServices, containers,
                   stateFile, loadVars, resolveVars>>

\* One iteration of the loop of lines 470-479.
DownContainer ==
    /\ phase = "down-containers"
    /\ \E svcName \in todo :
          LET cName == stateFile.Containers[svcName]
          IN /\ todo' = todo \ {svcName}
             /\ \E stopped \in RunOutcomes :
                   IF stopped = "exit"
                   THEN /\ issued' = Append(issued, Command("down", "stop", cName, stopped))
                        /\ phase' = "down-exited"
                   ELSE \E deleted \in RunOutcomes :
                           /\ issued' = issued \o <<Command("down", "stop", cName, stopped),
                                                    Command("down", "delete", cName, deleted)>>
                           /\ phase' = IF deleted = "exit" THEN "down-exited" ELSE phase
    /\ UNCHANGED <<flags, createdNetworks, createdVolumes, startedServices, containers, stateFile,
                   loadVars, resolveVars>>

\* Line 482.
ContainersDone ==
    /\ phase = "down-containers"
    /\ todo = {}
    /\ IF flags.volumes
       THEN phase' = "down-volumes" /\ todo' = 1..Len(stateFile.Volumes)
       ELSE phase' = "down-networks" /\ todo' = 1..Len(stateFile.Networks)
    /\ UNCHANGED <<flags, issued, createdNetworks, createdVolumes, startedServices, containers,
                   stateFile, loadVars, resolveVars>>

\* One iteration of the loop of lines 483-488.
DownVolume ==
    /\ phase = "down-volumes"
    /\ todo # {}
    /\ LET i == NextIndex(todo)
       IN /\ todo' = todo \ {i}
          /\ \E o \in RunOutcomes :
                /\ issued' = Append(issued, Command("down", "volume delete", stateFile.Volumes[i], o))
                /\ phase' = IF o = "exit" THEN "down-exited" ELSE phase
    /\ UNCHANGED <<flags, createdNetworks, createdVolumes, startedServices, containers, stateFile,
                   loadVars, resolveVars>>

VolumesDeleted ==
    /\ phase = "down-volumes"
    /\ todo = {}
    /\ phase' = "down-networks"
    /\ todo' = 1..Len(stateFile.Networks)
    /\ UNCHANGED <<flags, issued, createdNetworks, createdVolumes, startedServices, containers,
                   stateFile, loadVars, resolveVars>>

\* One iteration of the loop of lines 492-497.
DownNetwork ==
    /\ phase = "down-networks"
    /\ todo # {}
    /\ LET i == NextIndex(todo)
       IN /\ todo' = todo \ {i}
          /\ \E o \in RunOutcomes :
                /\ issued' = Append(issued, Command("down", "network delete", stateFile.Networks[i], o))
                /\ phase' = IF o = "exit" THEN "down-exited" ELSE phase
    /\ UNCHANGED <<flags, createdNetworks, createdVolumes, startedServices, containers, stateFile,
                   loadVars, resolveVars>>

\* Lines 499-504.
DeleteProject ==
    /\ phase = "down-networks"
    /\ todo = {}
    /\ \E o \in FileOutcomes :
          IF o = "ok"
          THEN stateFile' = NoState /\ phase' = "down-ok"
          ELSE phase' = "down-failed" /\ UNCHANGED stateFile
    /\ UNCHANGED <<flags, issued, todo, createdNetworks, createdVolumes, startedServices, containers,
                   loadVars, resolveVars>>

\* compose up on a loaded model, then compose down of the same project.
UpInit ==
    /\ cf \in UpModels
    /\ flags \in [build : BOOLEAN, volumes : BOOLEAN]
    /\ flags.build => \E n \in DOMAIN cf.Services : HasBuild(cf.Services[n])
    /\ flags.volumes => cf.Volumes.kind # "nil"
    /\ stateFile \in {NoState, OldState}
    /\ phase = "up-networks"
    /\ todo = EntryNames(cf.Networks)
    /\ issued = <<>>
    /\ createdNetworks = <<>>
    /\ createdVolumes = <<>>
    /\ startedServices = <<>>
    /\ containers = <<>>
    /\ dir = <<>>
    /\ env = <<>>
    /\ text = <<>>
    /\ out = <<>>
    /\ files = <<>>
    /\ loadErr = NoLoadError
    /\ pc = "idle"
    /\ services = <<>>
    /\ scanned = {}
    /\ deps = <<>>
    /\ counted = {}
    /\ inDegree = <<>>
    /\ dependents = [n \in Names |-> <<>>]
    /\ queue = <<>>
    /\ order = <<>>
    /\ result = NoResult
    /\ first = NoResult
    /\ calls = 0

UpNext ==
    \/ CreateNetwork
    \/ NetworksDone
    \/ CreateVolume
    \/ VolumesDone
    \/ BuildImage
    \/ BuildDone
    \/ ScanService
    \/ SortDeps
    \/ CountService
    \/ SeedQueue
    \/ PopStep
    \/ Return
    \/ ResolveDone
    \/ StartService
    \/ RollbackStop
    \/ RollbackDone
    \/ SaveProject
    \/ BeginDown
    \/ DownContainer
    \/ ContainersDone
    \/ DownVolume
    \/ VolumesDeleted
    \/ DownNetwork
    \/ DeleteProject

UpSpec == UpInit /\ [][UpNext]_vars

\* ---- buildRunArgs as a step ---------------------------------------------------
\* One invocation of buildRunArgs on the service; the orders of the two
\* range loops over maps are chosen by the runtime.
BuildRunArgs ==
    /\ phase = "args"
    /\ calls < MaxArgsCalls
    /\ \E svcName \in DOMAIN services :
          LET svc == services[svcName]
          IN \E envOrder \in Perms(KeysOfKind(svc.Environment, "stringmap")),
                netOrder \in Perms(KeysOfKind(svc.Networks, "map")) :
                issued' = Append(issued, buildRunArgs(svc, "p", svcName, envOrder, netOrder))
    /\ calls' = calls + 1
    /\ UNCHANGED <<phase, flags, todo, createdNetworks, createdVolumes, startedServices, containers,
                   stateFile, loadVars, services, pc, scanned, deps, counted, inDegree, dependents,
                   queue, order, result, first>>

ArgsInit ==
    /\ services \in {[n \in {1} |-> svc] : svc \in ArgsServices}
    /\ phase = "args"
    /\ flags = NoFlags
    /\ todo = {}
    /\ issued = <<>>
    /\ createdNetworks = <<>>
    /\ createdVolumes = <<>>
    /\ startedServices = <<>>
    /\ containers = <<>>
    /\ stateFile = NoState
    /\ dir = <<>>
    /\ env = <<>>
    /\ text = <<>>
    /\ out = <<>>
    /\ files = <<>>
    /\ cf = NoModel
    /\ loadErr = NoLoadError
    /\ pc = "idle"
    /\ scanned = {}
    /\ deps = <<>>
    /\ counted = {}
    /\ inDegree = <<>>
    /\ dependents = [n \in Names |-> <<>>]
    /\ queue = <<>>
    /\ order = <<>>
    /\ result = NoResult
    /\ first = NoResult
    /\ calls = 0

ArgsNext == BuildRunArgs

ArgsSpec == ArgsInit /\ [][ArgsNext]_vars

\* ---- interpolateEnv as a step --------------------------------------------
Interpolate ==
    /\ pc = "interpolate"
    /\ out' = interpolateEnv(text, env)
    /\ pc' = "interpolated"
    /\ UNCHANGED <<composeVars, dir, env, text, files, cf, loadErr, services, scanned, deps, counted, inDegree,
                   dependents, queue, order, result, first, calls>>

InterpInit ==
    /\ env \in Environments
    /\ text \in InterpTexts
    /\ out = <<>>
    /\ pc = "interpolate"
    /\ dir = <<>>
    /\ files = <<>>
    /\ cf = NoModel
    /\ loadErr = NoLoadError
    /\ services = <<>>
    /\ scanned = {}
    /\ deps = <<>>
    /\ counted = {}
    /\ inDegree = <<>>
    /\ dependents = [n \in Names |-> <<>>]
    /\ queue = <<>>
    /\ order = <<>>
    /\ result = NoResult
    /\ first = NoResult
    /\ ComposeIdle
    /\ calls = 0

InterpNext == Interpolate

InterpSpec == InterpInit /\ [][InterpNext]_vars

\* ---- vocabulary of the properties ---------------------------------------
\* The keys of S's dependsOn mapping, read off the input.
DeclaredDeps(S) ==
    IF services[S].DependsOn.kind = "conditions" THEN DOMAIN services[S].DependsOn.val ELSE {}

AllDefined == \A S \in DOMAIN services : DeclaredDeps(S) \subseteq DOMAIN services

Succeeded == pc = "done" /\ result.err = "none"

\* Index of x in seq (Len(seq)+1 when absent).
PosIn(seq, x) ==
    IF x \in Range(seq) THEN CHOOSE i \in 1..Len(seq) : seq[i] = x ELSE Len(seq) + 1

\* Services reachable from the set F through at most n dependsOn edges (n >= 1).
RECURSIVE ReachWithin(_, _)
ReachWithin(F, n) ==
    LET step == UNION {DeclaredDeps(S) \cap DOMAIN services : S \in F}
    IN IF n <= 1 THEN step ELSE step \cup ReachWithin(step, n - 1)

\* S lies on a dependency cycle.
OnCycle(S) == S \in ReachWithin({S}, NumNames)

HasCycle == \E S \in DOMAIN services : OnCycle(S)

Ascending(seq) == \A i, j \in 1..Len(seq) : i < j => seq[i] < seq[j]

\* C1: when ResolveOrder succeeds, every key D of S's dependsOn occurs at a
\* strictly smaller index than S in the returned order.
C1_DependencyBeforeDependent ==
    Succeeded =>
        \A S \in DOMAIN services : \A D \in DeclaredDeps(S) :
            /\ D \in Range(result.order)
            /\ S \in Range(result.order)
            /\ PosIn(result.order, D) < PosIn(result.order, S)

C1_Witness ==
    /\ Succeeded
    /\ \E S \in DOMAIN services : Cardinality(DeclaredDeps(S)) >= 2
    /\ \E S \in DOMAIN services : \E D \in DeclaredDeps(S) : D > S

\* C2: when ResolveOrder succeeds, the returned sequence is a permutation of
\* the keys of the services mapping.
C2_OrderIsPermutation ==
    Succeeded =>
        /\ Range(result.order) = DOMAIN services
        /\ Len(result.order) = Cardinality(DOMAIN services)

C2_Witness ==
    /\ Succeeded
    /\ Cardinality(DOMAIN services) = NumNames
    /\ \E S \in DOMAIN services : DeclaredDeps(S) # {}

\* C3: a later invocation on the same services mapping returns the same
\* order as the first one, whatever order the maps were iterated in.
C3_SameOrderEveryCall ==
    (pc = "done" /\ calls >= 2 /\ first.err = "none") => result = first

C3_Witness ==
    /\ pc = "done"
    /\ calls >= 2
    /\ first.err = "none"
    /\ result.err = "none"
    /\ \E D \in DOMAIN services :
          Cardinality({S \in DOMAIN services : D \in DeclaredDeps(S) /\ DeclaredDeps(S) = {D}}) >= 2

\* The services that are ready: in-degree zero and not yet output.
ReadySet == {S \in DOMAIN services : inDegree[S] = 0 /\ S \notin Range(order)}

\* The step at which S became ready: the index in the output of the last of
\* its dependencies (0 for a service without dependencies).
ReadyAt(S) ==
    IF DeclaredDeps(S) = {} THEN 0
    ELSE CHOOSE m \in {PosIn(order, D) : D \in DeclaredDeps(S)} :
            \A D \in DeclaredDeps(S) : PosIn(order, D) <= m

C5_NoDepsAscending ==
    Succeeded =>
        /\ \A i, j \in 1..Len(result.order) :
              (/\ i < j
               /\ result.order[i] \in DOMAIN services
               /\ result.order[j] \in DOMAIN services
               /\ DeclaredDeps(result.order[i]) = {}
               /\ DeclaredDeps(result.order[j]) = {}) => result.order[i] < result.order[j]
        /\ (\A S \in DOMAIN services : DeclaredDeps(S) = {}) =>
              /\ Ascending(result.order)
              /\ Range(result.order) = DOMAIN services

C5_Witness ==
    /\ Succeeded
    /\ Cardinality(DOMAIN services) = NumNames
    /\ \A S \in DOMAIN services : DeclaredDeps(S) = {}

\* C6: when every dependsOn key is a declared service, ResolveOrder returns
\* the cycle error exactly when the graph has a cycle, and an order otherwise.
C6_CycleErrorIffCycle ==
    (pc = "done" /\ AllDefined) =>
        /\ (result.err = "cycle") <=> HasCycle
        /\ (~HasCycle) => result.err = "none"

C6_Witness ==
    /\ pc = "done"
    /\ AllDefined
    /\ result.err = "cycle"
    /\ \E S \in DOMAIN services : OnCycle(S) /\ S \notin DeclaredDeps(S)
    /\ \E S \in DOMAIN services : ~OnCycle(S)

\* C7 as stated: the names listed in the cycle error are exactly the services
\* that lie on a dependency cycle, in ascending order.
C7_CycleErrorNamesExactlyCycleMembers ==
    (pc = "done" /\ result.err = "cycle") =>
        /\ Range(result.cycled) = {S \in DOMAIN services : OnCycle(S)}
        /\ Ascending(result.cycled)

SelfDependent == {S \in DOMAIN services : S \in DeclaredDeps(S)}

\* C8 as stated: a service that depends on itself makes ResolveOrder fail
\* with the cycle error, which names that service.
C8_SelfDependencyIsCycleError ==
    (pc = "done" /\ SelfDependent # {}) =>
        /\ result.err = "cycle"
        /\ SelfDependent \subseteq Range(result.cycled)

\* C8 amended: a service that depends on itself makes ResolveOrder fail and
\* never appears in a successful output; the failure is the cycle error
\* naming that service when every dependsOn key is declared, and the
\* undefined-dependency error otherwise.
C8_SelfDependencyFails ==
    (pc = "done" /\ SelfDependent # {}) =>
        /\ result.err # "none"
        /\ result.order = <<>>
        /\ AllDefined => (result.err = "cycle" /\ SelfDependent \subseteq Range(result.cycled))
        /\ (~AllDefined) => result.err = "undefined"

C8_Witness ==
    /\ pc = "done"
    /\ AllDefined
    /\ \E S \in SelfDependent : DeclaredDeps(S) = {S}
    /\ result.err = "cycle"
    /\ Len(order) >= 1

\* C9: an undeclared dependsOn key makes ResolveOrder fail with the
\* undefined-dependency error naming a service and one of its undeclared
\* keys, before any in-degree or queue work, even when there is also a cycle.
C9_UndefinedDependencyFirst ==
    (~AllDefined) =>
        /\ pc \in {"scan", "done"}
        /\ \A S \in DOMAIN inDegree : inDegree[S] = 0
        /\ \A D \in DOMAIN dependents : dependents[D] = <<>>
        /\ queue = <<>>
        /\ order = <<>>
        /\ pc = "done" =>
              /\ result.err = "undefined"
              /\ result.name \in DOMAIN services
              /\ result.dep \in DeclaredDeps(result.name)
              /\ result.dep \notin DOMAIN services

C9_Witness ==
    /\ pc = "done"
    /\ result.err = "undefined"
    /\ HasCycle
    /\ scanned # {}

\* The keys of S's dependsOn in the model Load returned.
ModelDeps(S) ==
    IF cf.Services[S].DependsOn.kind = "conditions" THEN DOMAIN cf.Services[S].DependsOn.val ELSE {}

\* C10 as stated: in every model returned by Load each dependsOn key is a
\* key of the model's services; an undeclared name makes Load return an
\* error instead of a model.
C10_LoadedDepsAreDeclared ==
    cf.loaded => \A S \in DOMAIN cf.Services : ModelDeps(S) \subseteq DOMAIN cf.Services

\* ---- interpolation properties --------------------------------------------
Interpolated == pc = "interpolated"

\* The text is exactly one reference ${inner}.
IsSingleRef(t) ==
    /\ Len(t) >= 4
    /\ t[1] = "$" /\ t[2] = "{" /\ t[Len(t)] = "}"
    /\ \A k \in 3..(Len(t) - 1) : t[k] # "}"

StartsWith(t, prefix) == Len(t) >= Len(prefix) /\ SubSeq(t, 1, Len(prefix)) = prefix

\* Variable names that contain neither ':' nor '-'.
VarNames == {<<"A">>, <<"B">>}

VarSet(X) == X \in DOMAIN env /\ env[X].set
VarValue(X) == IF VarSet(X) THEN env[X].val ELSE <<>>

HasColonDash(t) == \E k \in 1..(Len(t) - 1) : t[k] = ":" /\ t[k + 1] = "-"
HasDash(t) == \E k \in 1..Len(t) : t[k] = "-"
FirstColonDash(t) == CHOOSE k \in 1..(Len(t) - 1) :
    /\ t[k] = ":" /\ t[k + 1] = "-"
    /\ \A h \in 1..(k - 1) : ~(t[h] = ":" /\ t[h + 1] = "-")
FirstDash(t) == CHOOSE k \in 1..Len(t) : t[k] = "-" /\ \A h \in 1..(k - 1) : t[h] # "-"

\* C11: ${X:-d} becomes the value of X when X is set and non-empty, and the
\* literal text d when X is unset or set to the empty string.
C11_ColonDashDefault ==
    Interpolated =>
        \A X \in VarNames :
            (IsSingleRef(text) /\ StartsWith(text, <<"$", "{">> \o X \o <<":", "-">>)) =>
                LET d == SubSeq(text, Len(X) + 5, Len(text) - 1)
                IN out = IF VarSet(X) /\ VarValue(X) # <<>> THEN VarValue(X) ELSE d

C11_Witness ==
    /\ Interpolated
    /\ text = Ref(<<"A", ":", "-", "B">>)
    /\ env[<<"A">>] = SetTo(<<>>)
    /\ out = <<"B">>

\* C12: ${X-d} becomes the value of X whenever X is set, the empty string
\* included, and d only when X is unset; ${X} becomes the value of X, or
\* the empty string when X is unset.
C12_DashDefaultAndPlain ==
    Interpolated =>
        \A X \in VarNames :
            /\ (/\ IsSingleRef(text)
                /\ StartsWith(text, <<"$", "{">> \o X \o <<"-">>)
                /\ ~HasColonDash(text)) =>
                    LET d == SubSeq(text, Len(X) + 4, Len(text) - 1)
                    IN out = IF VarSet(X) THEN VarValue(X) ELSE d
            /\ text = Ref(X) => out = VarValue(X)

C12_Witness ==
    /\ Interpolated
    /\ text = Ref(<<"A", "-", "B">>)
    /\ env[<<"A">>] = SetTo(<<>>)
    /\ out = <<>>

\* C13: an inner text containing ":-" always gets the ":-" rule, split at
\* its first ":-", even after an earlier bare "-"; the bare "-" rule applies
\* only without any ":-"; with neither, the inner text is a variable name.
C13_ColonDashTestedFirst ==
    (Interpolated /\ IsSingleRef(text)) =>
        LET inner == SubSeq(text, 3, Len(text) - 1)
        IN IF HasColonDash(inner)
           THEN LET k == FirstColonDash(inner)
                    X == SubSeq(inner, 1, k - 1)
                IN out = IF VarSet(X) /\ VarValue(X) # <<>> THEN VarValue(X)
                         ELSE SubSeq(inner, k + 2, Len(inner))
           ELSE IF HasDash(inner)
           THEN LET k == FirstDash(inner)
                    X == SubSeq(inner, 1, k - 1)
                IN out = IF VarSet(X) THEN VarValue(X) ELSE SubSeq(inner, k + 1, Len(inner))
           ELSE out = VarValue(inner)

C13_Witness ==
    /\ Interpolated
    /\ text = Ref(<<"A", "-", "B", ":", "-", "B">>)
    /\ env[<<"A", "-", "B">>] = SetTo(<<"v">>)
    /\ env[<<"A">>] = SetTo(<<>>)
    /\ out = <<"v">>

\* ---- Claims about merging and default discovery ------------------------------
Merged == pc # "load" /\ cf.loaded /\ Len(files) >= 1

LastOf(S) == CHOOSE i \in S : \A j \in S : j <= i

TypedDomain(m) == IF m.kind = "nil" THEN {} ELSE DOMAIN m.val

ListedNames(d) == IF d.kind = "list" THEN Range(d.val) ELSE {}

ServiceDefiners(n) == {i \in 1..Len(files) : n \in DOMAIN files[i].doc.Services}
NetworkDefiners(n) == {i \in 1..Len(files) : n \in TypedDomain(files[i].doc.Networks)}
VolumeDefiners(n) == {i \in 1..Len(files) : n \in TypedDomain(files[i].doc.Volumes)}

\* C14: after a merge of d1..dn the result has exactly the names defined by
\* some document, and each service, network and volume entry is the whole
\* entry of the last document defining its name: no field of an earlier
\* entry of that name survives.
C14_WholeEntryFromLastDocument ==
    Merged =>
        /\ DOMAIN cf.Services = UNION {DOMAIN files[i].doc.Services : i \in 1..Len(files)}
        /\ \A n \in DOMAIN cf.Services :
              LET src == files[LastOf(ServiceDefiners(n))].doc.Services[n]
              IN /\ cf.Services[n].Image = src.Image
                 /\ ModelDeps(n) = ListedNames(src.DependsOn)
        /\ TypedDomain(cf.Networks) = UNION {TypedDomain(files[i].doc.Networks) : i \in 1..Len(files)}
        /\ \A n \in TypedDomain(cf.Networks) :
              cf.Networks.val[n] = files[LastOf(NetworkDefiners(n))].doc.Networks.val[n]
        /\ TypedDomain(cf.Volumes) = UNION {TypedDomain(files[i].doc.Volumes) : i \in 1..Len(files)}
        /\ \A n \in TypedDomain(cf.Volumes) :
              cf.Volumes.val[n] = files[LastOf(VolumeDefiners(n))].doc.Volumes.val[n]

C14_Witness ==
    /\ Merged
    /\ Len(files) = 2
    /\ DOMAIN files[1].doc.Services = {1, 2}
    /\ files[1].doc.Services[1] = ImageService("a", RawList(<<2>>))
    /\ DOMAIN files[2].doc.Services = {1}
    /\ files[2].doc.Services[1] = ImageService("b", RawNil)
    /\ DOMAIN cf.Services = {1, 2}
    /\ ModelDeps(1) = {}
    /\ cf.Services[1].Image = "b"

\* C15: the model's name is the name of the last document whose name is not
\* empty, and is empty only when no document has a name; a later document
\* without a name does not clear it.
C15_NameIsLastNonEmpty ==
    Merged =>
        LET named == {i \in 1..Len(files) : files[i].doc.Name # ""}
        IN cf.Name = IF named = {} THEN "" ELSE files[LastOf(named)].doc.Name

C15_Witness ==
    /\ Merged
    /\ Len(files) = 2
    /\ files[1].doc.Name = "p"
    /\ files[2].doc.Name = ""
    /\ cf.Name = "p"

Discovered == pc # "load" /\ Len(files) = 0

PriorityFile ==
    IF "compose.yaml" \in DOMAIN dir THEN "compose.yaml"
    ELSE IF "compose.yml" \in DOMAIN dir THEN "compose.yml"
    ELSE IF "docker-compose.yml" \in DOMAIN dir THEN "docker-compose.yml"
    ELSE IF "docker-compose.yaml" \in DOMAIN dir THEN "docker-compose.yaml"
    ELSE ""

\* C16: called without paths, Load uses exactly one file, the first of
\* compose.yaml, compose.yml, docker-compose.yml, docker-compose.yaml that
\* exists in the directory, whatever else exists; when none exists it fails
\* with a not-found error listing the four names.
C16_DefaultFileByPriority ==
    Discovered =>
        IF PriorityFile = ""
        THEN /\ ~cf.loaded
             /\ loadErr.kind = "notfound"
             /\ loadErr.tried = <<"compose.yaml", "compose.yml", "docker-compose.yml", "docker-compose.yaml">>
        ELSE LET f == dir[PriorityFile]
             IN IF f.status = "ok"
                THEN /\ cf.loaded
                     /\ cf.Name = f.doc.Name
                     /\ DOMAIN cf.Services = DOMAIN f.doc.Services
                     /\ \A n \in DOMAIN cf.Services : cf.Services[n].Image = f.doc.Services[n].Image
                ELSE /\ ~cf.loaded
                     /\ loadErr.kind = (IF f.status = "unreadable" THEN "read" ELSE "parse")
                     /\ loadErr.file = 1

C16_Witness ==
    /\ Discovered
    /\ DOMAIN dir = {"compose.yml", "docker-compose.yml", "docker-compose.yaml"}
    /\ dir["docker-compose.yml"].status = "ok"
    /\ dir["docker-compose.yaml"].status = "ok"
    /\ cf.loaded
    /\ cf.Name = "compose.yml"

\* ---- Claims about the normalisation of one service ---------------------------
Returned == pc # "load"
Loaded == Returned /\ cf.loaded

\* The service as written in the file, and as Load returns it.
Written == files[1].doc.Services[1]
Normalised == cf.Services[1]

Whitespace == {" ", "\t", "\n", "\r"}

TokenStarts(s) == {i \in 1..Len(s) : s[i] \notin Whitespace /\ (i = 1 \/ s[i - 1] \in Whitespace)}

TokenEnd(s, i) ==
    CHOOSE j \in i..Len(s) :
        /\ \A k \in i..j : s[k] \notin Whitespace
        /\ j = Len(s) \/ s[j + 1] \in Whitespace

\* r is the sequence of the whitespace-separated tokens of s, in order.
IsTokensOf(r, s) ==
    /\ Len(r) = Cardinality(TokenStarts(s))
    /\ \A i \in TokenStarts(s) :
          r[Cardinality({j \in TokenStarts(s) : j <= i})] = SubSeq(s, i, TokenEnd(s, i))

\* r is the list items, position by position.
IsSameList(r, items) ==
    /\ Len(r) = Len(items)
    /\ \A i \in 1..Len(items) : items[i].t = "str" => r[i] = items[i].v

CommandNormalised(raw, cooked) ==
    /\ raw.kind = "string" => cooked.kind = "strings" /\ IsTokensOf(cooked.val, raw.val)
    /\ raw.kind = "list" => cooked.kind = "strings" /\ IsSameList(cooked.val, raw.val)

\* C17: a command, and likewise an entrypoint, written as a string is
\* loaded as the sequence of its whitespace-separated tokens in order;
\* written as a list it is loaded as the same tokens, same order and length.
C17_CommandTokens ==
    (Returned /\ Len(files) = 1 /\ DOMAIN files[1].doc.Services = {1}) =>
        /\ (Written.Command.kind \in {"string", "list"} \/ Written.Entrypoint.kind \in {"string", "list"})
              => cf.loaded
        /\ cf.loaded => /\ CommandNormalised(Written.Command, Normalised.Command)
                        /\ CommandNormalised(Written.Entrypoint, Normalised.Entrypoint)

C17_Witness ==
    /\ Loaded
    /\ Written.Command = RawText(<<"b", " ", "\t", "a">>)
    /\ Normalised.Command.val = << <<"b">>, <<"a">> >>

\* C18: depends_on written as a list is loaded as a mapping with one key per
\* listed name, each service_started without restart; written as a mapping
\* each key keeps the condition and the restart flag it specifies, with
\* service_started where no condition and false where no restart is given.
C18_DependsOnNormalised ==
    (Loaded /\ Len(files) = 1 /\ DOMAIN files[1].doc.Services = {1}) =>
        LET raw == Written.DependsOn
            cooked == Normalised.DependsOn
        IN /\ raw.kind = "list" =>
                /\ cooked.kind = "conditions"
                /\ DOMAIN cooked.val = Range(raw.val)
                /\ \A n \in DOMAIN cooked.val :
                      cooked.val[n] = [Condition |-> "service_started", Restart |-> FALSE]
           /\ raw.kind = "map" =>
                /\ cooked.kind = "conditions"
                /\ DOMAIN cooked.val = DOMAIN raw.val
                /\ \A n \in DOMAIN raw.val :
                      LET c == raw.val[n]
                          givesCondition == c.kind = "map" /\ "condition" \in DOMAIN c.val
                          givesRestart == c.kind = "map" /\ "restart" \in DOMAIN c.val
                      IN /\ givesCondition => cooked.val[n].Condition = c.val["condition"].v
                         /\ ~givesCondition => cooked.val[n].Condition = "service_started"
                         /\ (givesRestart /\ c.val["restart"].t = "bool") =>
                               cooked.val[n].Restart = (c.val["restart"].v = "true")
                         /\ ~givesRestart => cooked.val[n].Restart = FALSE

C18_Witness ==
    /\ Loaded
    /\ Written.DependsOn.kind = "map"
    /\ DOMAIN Written.DependsOn.val = {1, 2}
    /\ Written.DependsOn.val[1] =
          RawMap([k \in {"condition", "restart"} |->
                    IF k = "condition" THEN RawStr("service_healthy") ELSE RawBool("true")])
    /\ Written.DependsOn.val[2] = RawNil
    /\ Normalised.DependsOn.val[1] = [Condition |-> "service_healthy", Restart |-> TRUE]
    /\ Normalised.DependsOn.val[2] = [Condition |-> "service_started", Restart |-> FALSE]

ValidConditions == {"service_started", "service_healthy", "service_completed_successfully"}

\* C19 as stated: in every model returned by Load the condition of every
\* dependency is service_started, service_healthy or
\* service_completed_successfully.
C19_ConditionsAreValid ==
    Loaded =>
        \A n \in DOMAIN cf.Services :
            \A k \in ModelDeps(n) : cf.Services[n].DependsOn.val[k].Condition \in ValidConditions

\* One entry of an environment list: its key, and its value in the process
\* environment env.
HasEquals(s) == \E k \in 1..Len(s) : s[k] = "="
FirstEquals(s) == CHOOSE k \in 1..Len(s) : s[k] = "=" /\ \A h \in 1..(k - 1) : s[h] # "="
EntryKey(s) == IF HasEquals(s) THEN SubSeq(s, 1, FirstEquals(s) - 1) ELSE s
EntryValue(s) == IF HasEquals(s) THEN SubSeq(s, FirstEquals(s) + 1, Len(s)) ELSE VarValue(s)

EnvironmentIsList == Loaded /\ Len(files) = 1 /\ DOMAIN files[1].doc.Services = {1}
                        /\ Written.Environment.kind = "list"

\* C20: an environment list is loaded as a mapping from strings to strings
\* with exactly the keys of its entries; a key has the value of the last
\* entry for that key: the text after the first "=" of a KEY=VALUE entry, the
\* process's value of KEY (empty when unset) for a bare KEY entry.
C20_EnvironmentListLastWins ==
    EnvironmentIsList =>
        LET items == Written.Environment.val
            m == Normalised.Environment
        IN /\ m.kind = "stringmap"
           /\ DOMAIN m.val = {EntryKey(items[i].v) : i \in 1..Len(items)}
           /\ \A K \in DOMAIN m.val :
                 m.val[K] = EntryValue(items[LastOf({i \in 1..Len(items) : EntryKey(items[i].v) = K})].v)

C20_Witness ==
    /\ EnvironmentIsList
    /\ Written.Environment.val = <<RawStr(<<"A", "=", "A">>), RawStr(<<"A">>)>>
    /\ env[<<"A">>] = SetTo(<<"v">>)
    /\ Normalised.Environment.val[<<"A">>] = <<"v">>

\* C20 as stated: every KEY=VALUE entry maps KEY to VALUE and every bare KEY
\* entry maps KEY to the process's value of KEY.
C20_EveryEntryMapsItsKey ==
    EnvironmentIsList =>
        LET items == Written.Environment.val
            m == Normalised.Environment
        IN /\ m.kind = "stringmap"
           /\ \A i \in 1..Len(items) :
                 /\ EntryKey(items[i].v) \in DOMAIN m.val
                 /\ m.val[EntryKey(items[i].v)] = EntryValue(items[i].v)

\* ---- Claims about termination and determinism of ResolveOrder ----------------
NoDuplicates(q) == \A i, j \in 1..Len(q) : q[i] = q[j] => i = j

\* C27: every invocation of ResolveOrder reaches its return; meanwhile no
\* in-degree is negative, no service is put in the ready queue twice (the
\* output followed by the queue holds each service at most once), and the
\* output has no duplicate.
C27_TerminatesWithoutDuplicates ==
    /\ [](/\ \A S \in DOMAIN inDegree : inDegree[S] >= 0
          /\ NoDuplicates(order \o queue)
          /\ NoDuplicates(order))
    /\ (pc # "done") ~> (pc = "done")

C27_Witness ==
    /\ pc = "done"
    /\ result.err = "none"
    /\ Len(order) = NumNames
    /\ \E S \in DOMAIN services : Cardinality(DeclaredDeps(S)) >= 2

\* C28 as stated: a later invocation on the same services mapping returns
\* the same error as the first one, whatever order the maps were iterated
\* in; with several undefined references the undefined-dependency error
\* names the same service and the same missing reference.
C28_SameErrorEveryCall ==
    (pc = "done" /\ calls >= 2 /\ first.err # "none") => result = first

\* ---- Claims about the shapes of the flexible fields ---------------------------
\* The flexible fields in normalisation order, each with the name an error
\* gives it.
Normalisation ==
    << <<"Command", "command">>, <<"Entrypoint", "entrypoint">>, <<"Environment", "environment">>,
       <<"EnvFile", "env_file">>, <<"DependsOn", "depends_on">>, <<"DNS", "dns">>,
       <<"DNSSearch", "dns_search">>, <<"Tmpfs", "tmpfs">>, <<"Networks", "networks">>,
       <<"Build", "build">> >>

\* The shapes a document may give a field.
SupportedKinds(f) ==
    IF f \in {"Environment", "DependsOn", "Networks"} THEN {"nil", "list", "map"}
    ELSE IF f = "Build" THEN {"nil", "string", "map"}
    ELSE {"nil", "string", "list"}

Unsupported(S) ==
    {i \in 1..Len(Normalisation) :
        files[1].doc.Services[S][Normalisation[i][1]].kind \notin SupportedKinds(Normalisation[i][1])}

OneFileRead == Returned /\ Len(files) = 1 /\ files[1].status = "ok"

\* C21: when some flexible field of some service has an unsupported shape,
\* Load returns no model and an error naming such a service and the first of
\* its unsupported fields in normalisation order; otherwise it returns a model.
C21_UnsupportedShapeFailsLoad ==
    OneFileRead =>
        LET bad == {S \in DOMAIN files[1].doc.Services : Unsupported(S) # {}}
        IN IF bad # {}
           THEN /\ cf = NoModel
                /\ loadErr.kind = "service"
                /\ loadErr.service \in bad
                /\ \E i \in Unsupported(loadErr.service) :
                      /\ \A j \in Unsupported(loadErr.service) : i <= j
                      /\ loadErr.field = Normalisation[i][2]
           ELSE cf.loaded /\ loadErr.kind = "none"

C21_Witness ==
    /\ OneFileRead
    /\ DOMAIN files[1].doc.Services = {1, 2}
    /\ Unsupported(1) = {2, 10}
    /\ loadErr.service = 1
    /\ loadErr.field = "entrypoint"
    /\ ~cf.loaded

\* The one shape a field has in a model, when it is not nil.
CanonicalKind(f) ==
    IF f = "Environment" THEN "stringmap"
    ELSE IF f = "DependsOn" THEN "conditions"
    ELSE IF f = "Networks" THEN "map"
    ELSE IF f = "Build" THEN "build"
    ELSE "strings"

\* The names the depends_on of S lists in the file.
WrittenDeps(S) ==
    LET d == files[1].doc.Services[S].DependsOn
    IN IF d.kind = "list" THEN Range(d.val) ELSE IF d.kind = "map" THEN DOMAIN d.val ELSE {}

ScanFinished == pc \in {"indegree", "loop"} \/ (pc = "done" /\ result.err \in {"none", "cycle"})

\* C26: in a model returned by Load every flexible field of every service
\* is nil or in its canonical shape, and ResolveOrder on that model works
\* with every depends_on entry the file declares: an undeclared one is
\* reported, otherwise each service waits for exactly its written names.
C26_FieldsCanonical ==
    (OneFileRead /\ cf.loaded) =>
        /\ \A S \in DOMAIN cf.Services : \A i \in 1..Len(Normalisation) :
              cf.Services[S][Normalisation[i][1]].kind \in {"nil", CanonicalKind(Normalisation[i][1])}
        /\ \A S \in DOMAIN cf.Services : ModelDeps(S) = WrittenDeps(S)
        /\ ScanFinished => \A S \in DOMAIN cf.Services : Range(deps[S]) = WrittenDeps(S)
        /\ (pc = "done" /\ \E S \in DOMAIN cf.Services : ~(WrittenDeps(S) \subseteq DOMAIN cf.Services))
              => result.err = "undefined"

C26_Witness ==
    /\ OneFileRead
    /\ cf.loaded
    /\ pc = "done"
    /\ result.err = "none"
    /\ DOMAIN cf.Services = {1, 2}
    /\ files[1].doc.Services[2].DependsOn = RawList(<<1>>)
    /\ deps[2] = <<1>>
    /\ files[1].doc.Services[1].DNS = RawText(<<"d">>)
    /\ cf.Services[1].DNS = StringList(<< <<"d">> >>)

\* ---- compose up and down: claims ----------------------------------------------
\* The names the command cmd issued op for, in the order of issue.
Issued(cmd, op) ==
    LET cs == SelectSeq(issued, LAMBDA c : c.cmd = cmd /\ c.op = op)
    IN [i \in 1..Len(cs) |-> cs[i].name]

\* The names op was issued for with outcome o by compose up.
UpIssuedWith(op, o) == {issued[k].name : k \in {j \in 1..Len(issued) :
                           issued[j].cmd = "up" /\ issued[j].op = op /\ issued[j].outcome = o}}

\* The container of service S in this project.
ContainerOf(S) == <<Project, "_", S>>

Reversed(s) == [i \in 1..Len(s) |-> s[Len(s) + 1 - i]]

UpPhases ==
    {"up-networks", "up-volumes", "up-build", "up-resolve", "up-start", "up-rollback", "up-ok",
     "up-failed", "up-exited"}

\* compose up has ended without success.
UpFailed == phase \in {"up-failed", "up-exited"}

\* C22: when compose up has failed at a later service after starting at
\* least one, a stop has been issued for every service it started.
C22_FailedUpStopsStarted ==
    (UpFailed /\ startedServices # <<>> /\ Len(startedServices) < Len(result.order)) =>
        \A i \in 1..Len(startedServices) : ContainerOf(startedServices[i]) \in Range(Issued("up", "stop"))

\* The rollback of compose up has executed and the command has ended: the
\* last run did not start its service, or a stop was issued.
RollbackOver ==
    /\ UpFailed
    /\ \/ Issued("up", "stop") # <<>>
       \/ phase = "up-failed" /\ Len(Issued("up", "run")) > Len(startedServices)

\* C24: compose up issues its run commands in the order ResolveOrder
\* returned, and once its rollback has executed the stops issued are those of
\* the services started so far, in the reverse of the order they were
\* started, and of no other service.
C24_RunAndRollbackOrder ==
    /\ LET runs == Issued("up", "run")
       IN /\ Len(runs) <= Len(result.order)
          /\ \A i \in 1..Len(runs) : runs[i] = ContainerOf(result.order[i])
    /\ RollbackOver =>
          Issued("up", "stop") = Reversed([i \in 1..Len(startedServices) |-> ContainerOf(startedServices[i])])

DownOver == phase = "down-exited" \/ (phase = "down-networks" /\ todo = {})

\* C23: when compose down is over, a volume delete was issued for the
\* recorded volumes exactly if --volumes was given, and, with or without it,
\* a network delete for every recorded network and a stop followed by a
\* delete for every recorded container.
C23_DownDeletesRecorded ==
    DownOver =>
        /\ \A i \in 1..Len(stateFile.Volumes) :
              flags.volumes <=> stateFile.Volumes[i] \in Range(Issued("down", "volume delete"))
        /\ ~flags.volumes => Issued("down", "volume delete") = <<>>
        /\ \A i \in 1..Len(stateFile.Networks) :
              stateFile.Networks[i] \in Range(Issued("down", "network delete"))
        /\ \A S \in DOMAIN stateFile.Containers :
              \E k \in 1..Len(issued) :
                 /\ k < Len(issued)
                 /\ issued[k].cmd = "down" /\ issued[k].op = "stop"
                 /\ issued[k].name = stateFile.Containers[S]
                 /\ issued[k + 1].cmd = "down" /\ issued[k + 1].op = "delete"
                 /\ issued[k + 1].name = stateFile.Containers[S]

\* The name a declared network or volume goes by.
DeclaredName(k, x) == IF x.Name = "" THEN k ELSE x.Name

\* The names of the entries of m declared external, and of the others.
ExternalNames(m) == {DeclaredName(k, m.val[k]) : k \in {j \in EntryNames(m) : m.val[j].External}}
OwnNames(m) == {DeclaredName(k, m.val[k]) : k \in {j \in EntryNames(m) : ~m.val[j].External}}

\* compose down works on the state this up has written.
DownOfThisUp ==
    /\ phase \in {"down-containers", "down-volumes", "down-networks", "down-exited"}
    /\ stateFile = ProjectState(Project, containers, createdNetworks, createdVolumes)

NetworkArgs(args) == SelectSeq(args, LAMBDA a : a.flag = "--network")

\* C30: every invocation of buildRunArgs on the same service and project
\* gives the same --network argument.
C30_SameNetworkEveryCall ==
    \A i, j \in 1..Len(issued) : NetworkArgs(issued[i]) = NetworkArgs(issued[j])

====
